---------------------------- MODULE Spec2Model ----------------------------
(***************************************************************************)
(* A model of mustermann's compile-and-execute pipeline: the code          *)
(* generator (src/src/code_gen/mod.rs), the bytecode encoder               *)
(* (src/src/code_gen/instruction.rs, generate_bytecode in src/src/vm.rs)   *)
(* and the bytecode virtual machine (src/src/vm.rs).                       *)
(*                                                                         *)
(* Strings are sequences of bytes (their UTF-8 encoding), the bytecode is  *)
(* a sequence of bytes addressed from offset 0, and the VM decodes the     *)
(* byte at ip whatever it is, as the code does.                            *)
(***************************************************************************)
EXTENDS Integers, Sequences, FiniteSets, TLC

(***************************************************************************)
(* String literals of the sources and of the scenarios.                    *)
(***************************************************************************)
s_frontend == <<102, 114, 111, 110, 116, 101, 110, 100>>  \* "frontend"
s_products == <<112, 114, 111, 100, 117, 99, 116, 115>>  \* "products"
s_main_page == <<109, 97, 105, 110, 95, 112, 97, 103, 101>>  \* "main_page"
s_get_products == <<103, 101, 116, 95, 112, 114, 111, 100, 117, 99, 116, 115>>  \* "get_products"
s_missing == <<109, 105, 115, 115, 105, 110, 103>>  \* "missing"
s_Main_page == <<77, 97, 105, 110, 32, 112, 97, 103, 101>>  \* "Main page"
s_Main_page_s == <<77, 97, 105, 110, 32, 112, 97, 103, 101, 32, 37, 115>>  \* "Main page %s"
s_12345 == <<49, 50, 51, 52, 53>>  \* "12345"
s_67890 == <<54, 55, 56, 57, 48>>  \* "67890"
s_Hello_bang == <<72, 101, 108, 108, 111, 44, 32, 37, 33>>  \* "Hello, %!"
s_Hello_s == <<72, 101, 108, 108, 111, 44, 32, 37, 115, 33>>  \* "Hello, %s!"
s_Hello_d == <<72, 101, 108, 108, 111, 44, 32, 37, 100, 33>>  \* "Hello, %d!"
s_world == <<119, 111, 114, 108, 100>>  \* "world"
s_Fetching_s == <<70, 101, 116, 99, 104, 105, 110, 103, 32, 112, 114, 111, 100, 117, 99, 116, 32, 111, 114, 100, 101, 114, 115, 32, 37, 115>>  \* "Fetching product orders %s"
s_Unexpected == <<85, 110, 101, 120, 112, 101, 99, 116, 101, 100>>  \* "Unexpected"
s_test == <<116, 101, 115, 116>>  \* "test"
s_label == <<108, 97, 98, 101, 108>>  \* "label"
s_main == <<109, 97, 105, 110>>  \* "main"
s_start_function == <<115, 116, 97, 114, 116, 95, 102, 117, 110, 99, 116, 105, 111, 110>>  \* "start_function"
s_end_function == <<101, 110, 100, 95, 102, 117, 110, 99, 116, 105, 111, 110>>  \* "end_function"
s_start_ == <<115, 116, 97, 114, 116, 95>>  \* "start_"
s_end_ == <<101, 110, 100, 95>>  \* "end_"
s__main == <<95, 109, 97, 105, 110>>  \* "_main"
s_start_loop == <<115, 116, 97, 114, 116, 95, 108, 111, 111, 112>>  \* "start_loop"
s_end_loop == <<101, 110, 100, 95, 108, 111, 111, 112>>  \* "end_loop"
s_a == <<97>>  \* "a"
s_b == <<98>>  \* "b"
s_f == <<102>>  \* "f"
s_k == <<107>>  \* "k"
s_x == <<120>>  \* "x"
s_checkout == <<99, 104, 101, 99, 107, 111, 117, 116>>  \* "checkout"
s_orders == <<111, 114, 100, 101, 114, 115>>  \* "orders"
s_create == <<99, 114, 101, 97, 116, 101>>  \* "create"
s_audit == <<97, 117, 100, 105, 116>>  \* "audit"
s_log == <<108, 111, 103>>  \* "log"
s_pay == <<112, 97, 121>>  \* "pay"
s_get_prices == <<103, 101, 116, 95, 112, 114, 105, 99, 101, 115>>  \* "get_prices"
s_get_stock == <<103, 101, 116, 95, 115, 116, 111, 99, 107>>  \* "get_stock"
s_pct_s == <<37, 115>>  \* "%s"
s_pct_d == <<37, 100>>  \* "%d"
s_s_and_s == <<37, 115, 61, 37, 115>>  \* "%s=%s"
s_s_and_d == <<37, 115, 37, 100>>  \* "%s%d"
s_d_and_d == <<37, 100, 37, 100>>  \* "%d%d"
s_name == <<110, 97, 109, 101>>  \* "name"
s_template == <<116, 101, 109, 112, 108, 97, 116, 101>>  \* "template"
s_loop_ == <<108, 111, 111, 112, 95>>  \* "loop_"
s_loop == <<108, 111, 111, 112>>  \* "loop"

(***************************************************************************)
(* Option<T>.                                                              *)
(***************************************************************************)
None == [some |-> FALSE, v |-> 0]
Some(x) == [some |-> TRUE, v |-> x]

(***************************************************************************)
(* StackValue: String(text) or Int(u64).  An Int holds n for the u64 n     *)
(* below 2^31 and n - 2^64 for a u64 n above 2^64 - 2^31 (the values a     *)
(* wrapping decrement of a small number produces).                         *)
(***************************************************************************)
StringValue(s) == [tag |-> "String", s |-> s, n |-> 0]
IntValue(n) == [tag |-> "Int", s |-> <<>>, n |-> n]

(***************************************************************************)
(* Instruction.  a and b hold the string operands (label, key, value), v   *)
(* the pushed StackValue, n the sleep duration.                            *)
(***************************************************************************)
Instr(op, v, a, b, n) == [op |-> op, v |-> v, a |-> a, b |-> b, n |-> n]
Push(v) == Instr("Push", v, <<>>, <<>>, 0)
Pop == Instr("Pop", IntValue(0), <<>>, <<>>, 0)
Dec == Instr("Dec", IntValue(0), <<>>, <<>>, 0)
JmpIfZero(l) == Instr("JmpIfZero", IntValue(0), l, <<>>, 0)
Label(l) == Instr("Label", IntValue(0), l, <<>>, 0)
Stdout == Instr("Stdout", IntValue(0), <<>>, <<>>, 0)
Stderr == Instr("Stderr", IntValue(0), <<>>, <<>>, 0)
Sleep(ms) == Instr("Sleep", IntValue(0), <<>>, <<>>, ms)
StoreVar(k, val) == Instr("StoreVar", IntValue(0), k, val, 0)
LoadVar(k) == Instr("LoadVar", IntValue(0), k, <<>>, 0)
Dup == Instr("Dup", IntValue(0), <<>>, <<>>, 0)
Jump(l) == Instr("Jump", IntValue(0), l, <<>>, 0)
Printf == Instr("Printf", IntValue(0), <<>>, <<>>, 0)
RemoteCall == Instr("RemoteCall", IntValue(0), <<>>, <<>>, 0)
StartContext == Instr("StartContext", IntValue(0), <<>>, <<>>, 0)
EndContext == Instr("EndContext", IntValue(0), <<>>, <<>>, 0)
CheckInterrupt == Instr("CheckInterrupt", IntValue(0), <<>>, <<>>, 0)
Call(l) == Instr("Call", IntValue(0), l, <<>>, 0)
Ret == Instr("Ret", IntValue(0), <<>>, <<>>, 0)

PUSH_STRING_CODE == 1
PUSH_INT_CODE == 2
POP_CODE == 3
DEC_CODE == 4
JMP_IF_ZERO_CODE == 5
LABEL_CODE == 6
STDOUT_CODE == 7
STDERR_CODE == 8
SLEEP_CODE == 9
STORE_VAR_CODE == 10
LOAD_VAR_CODE == 11
DUP_CODE == 12
JUMP_CODE == 13
PRINTF_CODE == 14
REMOTE_CALL_CODE == 15
START_CONTEXT_CODE == 16
END_CONTEXT_CODE == 17
CHECK_INTERRUPT_CODE == 18
CALL_CODE == 19
RET_CODE == 20

\* size_of::<usize>() on the 64-bit targets the program is built for.
LENGTH_OFFSET == 8

code(i) ==
    CASE i.op = "Push" -> IF i.v.tag = "String" THEN PUSH_STRING_CODE ELSE PUSH_INT_CODE
      [] i.op = "Pop" -> POP_CODE
      [] i.op = "Dec" -> DEC_CODE
      [] i.op = "JmpIfZero" -> JMP_IF_ZERO_CODE
      [] i.op = "Label" -> LABEL_CODE
      [] i.op = "Stdout" -> STDOUT_CODE
      [] i.op = "Stderr" -> STDERR_CODE
      [] i.op = "Sleep" -> SLEEP_CODE
      [] i.op = "StoreVar" -> STORE_VAR_CODE
      [] i.op = "LoadVar" -> LOAD_VAR_CODE
      [] i.op = "Dup" -> DUP_CODE
      [] i.op = "Jump" -> JUMP_CODE
      [] i.op = "Printf" -> PRINTF_CODE
      [] i.op = "RemoteCall" -> REMOTE_CALL_CODE
      [] i.op = "StartContext" -> START_CONTEXT_CODE
      [] i.op = "EndContext" -> END_CONTEXT_CODE
      [] i.op = "CheckInterrupt" -> CHECK_INTERRUPT_CODE
      [] i.op = "Call" -> CALL_CODE
      [] i.op = "Ret" -> RET_CODE

\* usize::to_le_bytes / u64::to_le_bytes of a number below 2^31.
to_le_bytes(n) ==
    << n % 256, (n \div 256) % 256, (n \div 65536) % 256, (n \div 16777216) % 256,
       0, 0, 0, 0 >>

to_bytes(i) ==
    CASE i.op = "Push" ->
            IF i.v.tag = "String"
            THEN <<code(i)>> \o to_le_bytes(Len(i.v.s)) \o i.v.s
            ELSE <<code(i)>> \o to_le_bytes(8) \o to_le_bytes(i.v.n)
      [] i.op \in {"JmpIfZero", "Label", "LoadVar", "Jump", "Call"} ->
            <<code(i)>> \o to_le_bytes(Len(i.a)) \o i.a
      [] i.op = "Sleep" -> <<code(i)>> \o to_le_bytes(8) \o to_le_bytes(i.n)
      [] i.op = "StoreVar" ->
            <<code(i)>> \o to_le_bytes(Len(i.a)) \o i.a \o to_le_bytes(Len(i.b)) \o i.b
      [] OTHER -> <<code(i)>>

(***************************************************************************)
(* generate_bytecode: the bytes, label -> offset just past the Label       *)
(* instruction (a later Label of the same name overwrites an earlier       *)
(* one), and offset -> label.                                              *)
(***************************************************************************)
generate_bytecode(instructions) ==
    LET n == Len(instructions)
        bytesUpTo[i \in 0..n] ==
            IF i = 0 THEN <<>> ELSE bytesUpTo[i - 1] \o to_bytes(instructions[i])
        labelIdx == {i \in 1..n : instructions[i].op = "Label"}
        last(l) == CHOOSE i \in labelIdx :
                      /\ instructions[i].a = l
                      /\ \A j \in labelIdx : instructions[j].a = l => j <= i
    IN  [ bytes |-> bytesUpTo[n],
          label_jump_map |->
              [l \in {instructions[i].a : i \in labelIdx} |-> Len(bytesUpTo[last(l)])],
          label_index_map |->
              [o \in {Len(bytesUpTo[i]) : i \in labelIdx} |->
                  instructions[CHOOSE i \in labelIdx : Len(bytesUpTo[i]) = o].a] ]

(***************************************************************************)
(* The syntax tree (src/src/parser/mod.rs): Service {name, methods, loops}, *)
(* Method {name, statements}, Loop {statements}, Statement.                *)
(***************************************************************************)
NoneStr == [some |-> FALSE, v |-> <<>>]
NoneList == [some |-> FALSE, v |-> <<>>]

StmtStdout(message, args) ==
    [kind |-> "Stdout", message |-> message, args |-> args, duration |-> 0,
     service |-> NoneStr, method |-> <<>>]
StmtStderr(message, args) ==
    [kind |-> "Stderr", message |-> message, args |-> args, duration |-> 0,
     service |-> NoneStr, method |-> <<>>]
StmtSleep(ms) ==
    [kind |-> "Sleep", message |-> <<>>, args |-> NoneList, duration |-> ms,
     service |-> NoneStr, method |-> <<>>]
StmtCall(service, method) ==
    [kind |-> "Call", message |-> <<>>, args |-> NoneList, duration |-> 0,
     service |-> service, method |-> method]
Method(name, statements) == [name |-> name, statements |-> statements]
Loop(statements) == [statements |-> statements]
Service(name, methods, loops) == [name |-> name, methods |-> methods, loops |-> loops]

(***************************************************************************)
(* CodeGenerator (src/src/code_gen/mod.rs).  A result is Ok(instructions)  *)
(* or Err(InvalidStatement).                                               *)
(***************************************************************************)
GenOk(instructions) == [ok |-> TRUE, instructions |-> instructions]
GenErr == [ok |-> FALSE, instructions |-> <<>>]

RECURSIVE Flatten(_)
Flatten(ss) == IF ss = <<>> THEN <<>> ELSE Head(ss) \o Flatten(Tail(ss))

\* process_print taking the arguments last to first.
process_print_reversed(message, args, print_type) ==
    LET out == IF print_type = "Stdout" THEN Stdout ELSE Stderr
    IN  IF args.some
        THEN Flatten([i \in 1..Len(args.v) |->
                 << Push(StringValue(message)),
                    Push(StringValue(args.v[Len(args.v) + 1 - i])), Printf, out >>])
        ELSE << Push(StringValue(message)), out >>

\* process_print lowering an empty argument list as it lowers an absent one.
process_print_empty_as_absent(message, args, print_type) ==
    LET out == IF print_type = "Stdout" THEN Stdout ELSE Stderr
    IN  IF args.some /\ args.v # <<>>
        THEN Flatten([i \in 1..Len(args.v) |->
                 << Push(StringValue(message)), Push(StringValue(args.v[i])), Printf, out >>])
        ELSE << Push(StringValue(message)), out >>

process_print(message, args, print_type) ==
    LET out == IF print_type = "Stdout" THEN Stdout ELSE Stderr
    IN  IF args.some
        THEN Flatten([i \in 1..Len(args.v) |->
                 << Push(StringValue(message)), Push(StringValue(args.v[i])), Printf, out >>])
        ELSE << Push(StringValue(message)), out >>

\* process_statement lowering a local call in a method as the loop's call is lowered; C26
\* does not hold of it.
process_statement_local_call(statement) ==
    CASE statement.kind = "Stdout" ->
            GenOk(process_print(statement.message, statement.args, "Stdout"))
      [] statement.kind = "Stderr" ->
            GenOk(process_print(statement.message, statement.args, "Stderr"))
      [] statement.kind = "Sleep" -> GenOk(<<Sleep(statement.duration)>>)
      [] statement.kind = "Call" ->
            IF statement.service.some
            THEN GenOk(<< Push(StringValue(statement.service.v)),
                          Push(StringValue(statement.method)), RemoteCall >>)
            ELSE GenOk(<< Call(s_start_ \o statement.method) >>)

\* The instructions of one statement of a method body; ok is FALSE for a local call.
process_statement(statement) ==
    CASE statement.kind = "Stdout" ->
            GenOk(process_print(statement.message, statement.args, "Stdout"))
      [] statement.kind = "Stderr" ->
            GenOk(process_print(statement.message, statement.args, "Stderr"))
      [] statement.kind = "Sleep" -> GenOk(<<Sleep(statement.duration)>>)
      [] statement.kind = "Call" ->
            IF statement.service.some
            THEN GenOk(<< Push(StringValue(statement.service.v)),
                          Push(StringValue(statement.method)), RemoteCall >>)
            ELSE GenErr

\* process_method with a CheckInterrupt after every statement of the body.
process_method_interruptible(method) ==
    LET parts == [i \in 1..Len(method.statements) |-> process_statement(method.statements[i])]
    IN  IF \E i \in 1..Len(parts) : ~parts[i].ok
        THEN GenErr
        ELSE GenOk(<<Label(s_start_ \o method.name)>>
                   \o Flatten([i \in 1..Len(parts) |->
                                 Append(parts[i].instructions, CheckInterrupt)])
                   \o <<Ret, Label(s_end_ \o method.name)>>)

process_method(method) ==
    LET parts == [i \in 1..Len(method.statements) |-> process_statement(method.statements[i])]
    IN  IF \E i \in 1..Len(parts) : ~parts[i].ok
        THEN GenErr
        ELSE GenOk(<<Label(s_start_ \o method.name)>>
                   \o Flatten([i \in 1..Len(parts) |-> parts[i].instructions])
                   \o <<Ret, Label(s_end_ \o method.name)>>)

\* What process_loop appends to the instructions; ok is FALSE for InvalidStatement.
process_loop(loop_def) ==
    IF loop_def.statements = <<>>
    THEN GenOk(<<>>)
    ELSE LET statements == Head(loop_def.statements)
         IN  IF statements.kind = "Call" /\ ~statements.service.some
             THEN GenOk(<< Label(s_start_loop), Call(s_start_ \o statements.method),
                           Jump(s_start_loop), Label(s_end_loop) >>)
             ELSE GenErr

\* process_service without the jump over the method bodies.
process_service_fall_through(service) ==
    LET methods == [i \in 1..Len(service.methods) |-> process_method(service.methods[i])]
        main == IF service.loops # <<>>
                THEN process_loop(Head(service.loops))
                ELSE GenOk(<<CheckInterrupt, Jump(s_start_ \o service.name \o s__main)>>)
    IN  IF (\E i \in 1..Len(methods) : ~methods[i].ok) \/ ~main.ok
        THEN GenErr
        ELSE GenOk(<< Label(s_start_ \o service.name) >>
                   \o Flatten([i \in 1..Len(methods) |-> methods[i].instructions])
                   \o <<Label(s_start_ \o service.name \o s__main)>>
                   \o main.instructions
                   \o << Label(s_end_ \o service.name \o s__main),
                         Label(s_end_ \o service.name) >>)

\* A variant without the Jump over the method bodies; C36 does not hold of it.
process_service_without_jump(service) ==
    LET methods == [i \in 1..Len(service.methods) |-> process_method(service.methods[i])]
        main == IF service.loops # <<>>
                THEN process_loop(Head(service.loops))
                ELSE GenOk(<<CheckInterrupt, Jump(s_start_ \o service.name \o s__main)>>)
    IN  IF (\E i \in 1..Len(methods) : ~methods[i].ok) \/ ~main.ok
        THEN GenErr
        ELSE GenOk(<< Label(s_start_ \o service.name) >>
                   \o Flatten([i \in 1..Len(methods) |-> methods[i].instructions])
                   \o <<Label(s_start_ \o service.name \o s__main)>>
                   \o main.instructions
                   \o << Label(s_end_ \o service.name \o s__main),
                         Label(s_end_ \o service.name) >>)

process_service(service) ==
    LET methods == [i \in 1..Len(service.methods) |-> process_method(service.methods[i])]
        main == IF service.loops # <<>>
                THEN process_loop(Head(service.loops))
                ELSE GenOk(<<CheckInterrupt, Jump(s_start_ \o service.name \o s__main)>>)
    IN  IF (\E i \in 1..Len(methods) : ~methods[i].ok) \/ ~main.ok
        THEN GenErr
        ELSE GenOk(<< Label(s_start_ \o service.name),
                      Jump(s_start_ \o service.name \o s__main) >>
                   \o Flatten([i \in 1..Len(methods) |-> methods[i].instructions])
                   \o <<Label(s_start_ \o service.name \o s__main)>>
                   \o main.instructions
                   \o << Label(s_end_ \o service.name \o s__main),
                         Label(s_end_ \o service.name) >>)

process(ast) == process_service(ast)

(***************************************************************************)
(* Helpers of the VM: byte access from offset 0, slices code[from..to],    *)
(* little-endian decoding, UTF-8 validation, str::contains, str::replace   *)
(* and u64::to_string.                                                     *)
(***************************************************************************)
ByteAt(bytes, i) == bytes[i + 1]
Slice(bytes, from, to) == SubSeq(bytes, from + 1, to)

\* Whether the 8 little-endian bytes hold a number below 2^31, and that number.
le_fits(bs) == bs[4] < 128 /\ bs[5] = 0 /\ bs[6] = 0 /\ bs[7] = 0 /\ bs[8] = 0
from_le_bytes(bs) == bs[1] + 256 * bs[2] + 65536 * bs[3] + 16777216 * bs[4]

Cont(b) == b >= 128 /\ b <= 191
RECURSIVE is_utf8(_)
is_utf8(bs) ==
    IF bs = <<>> THEN TRUE
    ELSE LET b == bs[1]
             n == Len(bs)
         IN  CASE b < 128 -> is_utf8(Tail(bs))
               [] b >= 194 /\ b <= 223 ->
                    n >= 2 /\ Cont(bs[2]) /\ is_utf8(SubSeq(bs, 3, n))
               [] b >= 224 /\ b <= 239 ->
                    /\ n >= 3 /\ Cont(bs[2]) /\ Cont(bs[3])
                    /\ (b = 224 => bs[2] >= 160)
                    /\ (b = 237 => bs[2] <= 159)
                    /\ is_utf8(SubSeq(bs, 4, n))
               [] b >= 240 /\ b <= 244 ->
                    /\ n >= 4 /\ Cont(bs[2]) /\ Cont(bs[3]) /\ Cont(bs[4])
                    /\ (b = 240 => bs[2] >= 144)
                    /\ (b = 244 => bs[2] <= 143)
                    /\ is_utf8(SubSeq(bs, 5, n))
               [] OTHER -> FALSE

\* str::contains(pat) for a non-empty pat.
contains(s, pat) ==
    \E i \in 1..(Len(s) - Len(pat) + 1) : SubSeq(s, i, i + Len(pat) - 1) = pat

\* str::replace(pat, to): every non-overlapping match of pat, left to right.
RECURSIVE replace(_, _, _)
replace(s, pat, to) ==
    IF Len(s) < Len(pat) THEN s
    ELSE IF SubSeq(s, 1, Len(pat)) = pat
         THEN to \o replace(SubSeq(s, Len(pat) + 1, Len(s)), pat, to)
         ELSE <<Head(s)>> \o replace(Tail(s), pat, to)

RECURSIVE digits(_)
digits(n) == IF n < 10 THEN <<48 + n>> ELSE digits(n \div 10) \o <<48 + (n % 10)>>

\* The decimal digits ds minus the number m (m below 2^31, ds at least 2^32).
RECURSIVE dec_sub(_, _)
dec_sub(ds, m) ==
    IF m = 0 THEN ds
    ELSE LET d == ds[Len(ds)] - (m % 10)
             front == SubSeq(ds, 1, Len(ds) - 1)
         IN  IF d >= 48 THEN dec_sub(front, m \div 10) \o <<d>>
             ELSE dec_sub(front, (m \div 10) + 1) \o <<d + 10>>

\* "18446744073709551616", 2^64.
two_pow_64 == <<49, 56, 52, 52, 54, 55, 52, 52, 48, 55, 51, 55, 48, 57, 53, 53, 49, 54, 49, 54>>

\* u64::to_string of an Int as the model holds it.
to_string(n) == IF n >= 0 THEN digits(n) ELSE dec_sub(two_pow_64, 0 - n)

\* StackValue's Display.
value_to_string(v) == IF v.tag = "String" THEN v.s ELSE to_string(v.n)

(***************************************************************************)
(* VMError, and what run() has returned so far.                            *)
(***************************************************************************)
Error(kind, s) == [kind |-> kind, s |-> s]
NoError == Error("None", <<>>)
Running == Error("Running", <<>>)
Ok == Error("Ok", <<>>)
StackUnderflow == Error("StackUnderflow", <<>>)
InvalidStackValue == Error("InvalidStackValue", <<>>)
MissingVar(k) == Error("MissingVar", k)
\* "Remote call tx not set" and the SendError text are told apart by s.
RemoteCallError(msg) == Error("RemoteCallError", msg)
MissingLabel(l) == Error("MissingLabel", l)
MissingSpan == Error("MissingSpan", <<>>)
PrintError == Error("PrintError", <<>>)
MaxExecutionCounterReached == Error("MaxExecutionCounterReached", <<>>)
InvalidTemplate(t) == Error("InvalidTemplate", t)
MissingFunctionName == Error("MissingFunctionName", <<>>)
MissingContext == Error("MissingContext", <<>>)
InvalidInstruction(b) == Error("InvalidInstruction", <<b>>)
MissingStackFrame == Error("MissingStackFrame", <<>>)
\* A Rust panic (unwrap of None/Err, slice out of range, checked overflow): run() unwinds.
Panic == Error("Panic", <<>>)
\* A u64 the model's integers cannot hold; the scenarios never produce one.
Unrepresentable == Error("Unrepresentable", <<>>)

s_tx_not_set == <<116, 120, 32, 110, 111, 116, 32, 115, 101, 116>>  \* "tx not set"
s_channel_closed == <<99, 108, 111, 115, 101, 100>>  \* "closed"

PrintStdout(s) == [channel |-> "Stdout", text |-> s]
PrintStderr(s) == [channel |-> "Stderr", text |-> s]
ServiceMessage(to, function, context) ==
    [to |-> to, function |-> function, context |-> context]

(***************************************************************************)
(* VM::new and the builders.                                               *)
(***************************************************************************)
new(instructions, service_name) ==
    LET bc == generate_bytecode(instructions)
    IN  [ code |-> bc.bytes,
          label_jump_map |-> bc.label_jump_map,
          label_index_map |-> bc.label_index_map,
          stack |-> << <<>> >>,
          vars |-> <<>>,
          ip |-> 0,
          max_execution_counter |-> None,
          return_addresses |-> <<>>,
          remote_call_tx |-> FALSE,
          remote_call_rx |-> FALSE,
          remote_call_counter |-> 0,
          remote_call_limit |-> 10000,
          service_name |-> service_name,
          tracer |-> FALSE,
          otel_context |-> FALSE ]

with_max_execution_counter(m, max) == [m EXCEPT !.max_execution_counter = Some(max)]
with_remote_call_tx(m) == [m EXCEPT !.remote_call_tx = TRUE]
with_remote_call_rx(m) == [m EXCEPT !.remote_call_rx = TRUE]
with_custom_remote_call_limit(m, limit) == [m EXCEPT !.remote_call_limit = limit]
with_tracer(m) == [m EXCEPT !.tracer = TRUE]

(***************************************************************************)
(* What one instruction did: the VM after it (after the part of it that    *)
(* ran, when it failed), the error it returned, the messages it sent on    *)
(* the print channel and on the outbound remote-call channel, and whether  *)
(* it took a message from the inbound one.                                 *)
(***************************************************************************)
Done(m) == [vm |-> m, err |-> NoError, print |-> <<>>, remote |-> <<>>, recv |-> FALSE]
Fail(m, e) == [vm |-> m, err |-> e, print |-> <<>>, remote |-> <<>>, recv |-> FALSE]

\* extract_length: the length field after the opcode byte; ok is FALSE when the
\* slice code[start..end] is out of range (a panic).
extract_length(m) ==
    LET start == m.ip + 1
        end == start + LENGTH_OFFSET
    IN  IF end > Len(m.code)
        THEN [ok |-> FALSE, fits |-> FALSE, start |-> start, end |-> end, length |-> 0]
        ELSE [ok |-> TRUE, fits |-> le_fits(Slice(m.code, start, end)), start |-> start,
              end |-> end, length |-> from_le_bytes(Slice(m.code, start, end))]

\* The operand slice &self.code[end..end + length] of the instruction at m.ip; ok is
\* FALSE when extract_length or the slice panics (a length of 2^31 or more is out of
\* range of every bytecode the model holds).
operand(m) ==
    LET el == extract_length(m)
    IN  IF el.ok /\ el.fits /\ el.end + el.length <= Len(m.code)
        THEN [ok |-> TRUE, end |-> el.end, length |-> el.length,
              bytes |-> Slice(m.code, el.end, el.end + el.length)]
        ELSE [ok |-> FALSE, end |-> el.end, length |-> 0, bytes |-> <<>>]

\* self.current_stackframe()?.push(v)
push_value(m, v) ==
    IF m.stack = <<>> THEN Fail(m, MissingStackFrame)
    ELSE Done([m EXCEPT !.stack[Len(m.stack)] = Append(@, v)])

\* self.current_stackframe()?.pop().ok_or(VMError::StackUnderflow)?
pop_value(m) ==
    IF m.stack = <<>> THEN [err |-> MissingStackFrame, v |-> IntValue(0), vm |-> m]
    ELSE LET frame == m.stack[Len(m.stack)]
         IN  IF frame = <<>> THEN [err |-> StackUnderflow, v |-> IntValue(0), vm |-> m]
             ELSE [err |-> NoError, v |-> frame[Len(frame)],
                   vm |-> [m EXCEPT !.stack[Len(m.stack)] = SubSeq(frame, 1, Len(frame) - 1)]]

set_ip(out, ip) == IF out.err = NoError THEN [out EXCEPT !.vm.ip = ip] ELSE out

exec_PUSH_STRING(m, io) ==
    LET o == operand(m)
    IN  IF ~o.ok \/ ~is_utf8(o.bytes) THEN Fail(m, Panic)
        ELSE set_ip(push_value(m, StringValue(o.bytes)), o.end + o.length)

exec_PUSH_INT(m, io) ==
    LET o == operand(m)
    IN  IF ~o.ok \/ o.length # 8 THEN Fail(m, Panic)
        ELSE IF ~le_fits(o.bytes) THEN Fail(m, Unrepresentable)
        ELSE set_ip(push_value(m, IntValue(from_le_bytes(o.bytes))), o.end + o.length)

\* self.stack.pop(): the whole current frame (nothing when there is none).
exec_POP(m, io) ==
    Done([m EXCEPT !.stack = SubSeq(@, 1, Len(@) - 1), !.ip = @ + 1])

\* n - 1 on a u64: with overflow checks (a debug build) 0 - 1 panics, without them
\* (a release build) it wraps to 2^64 - 1.
exec_DEC(m, io) ==
    LET p == pop_value(m)
    IN  IF p.err # NoError THEN Fail(p.vm, p.err)
        ELSE IF p.v.tag # "Int" THEN Fail(p.vm, InvalidStackValue)
        ELSE IF p.v.n = 0 /\ io.overflow_checks THEN Fail(p.vm, Panic)
        ELSE set_ip(push_value(p.vm, IntValue(p.v.n - 1)), m.ip + 1)

\* A variant that looks the label up before it looks at the popped value; C7 does not
\* hold of it.
exec_JMP_IF_ZERO_eager(m, io) ==
    LET o == operand(m)
        p == pop_value(m)
    IN  IF ~o.ok \/ ~is_utf8(o.bytes) THEN Fail(m, Panic)
        ELSE IF p.err # NoError THEN Fail(p.vm, p.err)
        ELSE IF p.v.tag # "Int" THEN Fail(p.vm, InvalidStackValue)
        ELSE IF o.bytes \notin DOMAIN m.label_jump_map THEN Fail(p.vm, MissingLabel(o.bytes))
        ELSE IF p.v.n = 0 THEN Done([p.vm EXCEPT !.ip = m.label_jump_map[o.bytes] + 1])
        ELSE Done([p.vm EXCEPT !.ip = m.ip + 1])

exec_JMP_IF_ZERO(m, io) ==
    LET o == operand(m)
        p == pop_value(m)
    IN  IF ~o.ok \/ ~is_utf8(o.bytes) THEN Fail(m, Panic)
        ELSE IF p.err # NoError THEN Fail(p.vm, p.err)
        ELSE IF p.v.tag # "Int" THEN Fail(p.vm, InvalidStackValue)
        ELSE IF p.v.n = 0
             THEN IF o.bytes \in DOMAIN m.label_jump_map
                  THEN Done([p.vm EXCEPT !.ip = m.label_jump_map[o.bytes] + 1])
                  ELSE Fail(p.vm, MissingLabel(o.bytes))
             ELSE Done([p.vm EXCEPT !.ip = m.ip + 1])

exec_LABEL(m, io) ==
    LET el == extract_length(m)
    IN  IF ~el.ok THEN Fail(m, Panic)
        ELSE IF ~el.fits THEN Fail(m, Unrepresentable)
        ELSE Done([m EXCEPT !.ip = el.end + el.length])

\* STDOUT dropping the message when the receiver is gone and going on; C23 does not hold
\* of it.
exec_STDOUT_ignores_closed(m, io) ==
    LET p == pop_value(m)
    IN  IF p.err # NoError THEN Fail(p.vm, p.err)
        ELSE IF io.print_closed THEN Done([p.vm EXCEPT !.ip = m.ip + 1])
        ELSE [Done([p.vm EXCEPT !.ip = m.ip + 1])
                EXCEPT !.print = <<PrintStdout(value_to_string(p.v))>>]

\* A send on the print channel fails when the receiver is gone.
exec_STDOUT(m, io) ==
    LET p == pop_value(m)
    IN  IF p.err # NoError THEN Fail(p.vm, p.err)
        ELSE IF io.print_closed THEN Fail(p.vm, PrintError)
        ELSE [Done([p.vm EXCEPT !.ip = m.ip + 1])
                EXCEPT !.print = <<PrintStdout(value_to_string(p.v))>>]

\* STDERR accepting an Int as STDOUT does; C28 does not hold of it.
exec_STDERR_stringifies(m, io) ==
    LET p == pop_value(m)
    IN  IF p.err # NoError THEN Fail(p.vm, p.err)
        ELSE IF io.print_closed THEN Fail(p.vm, PrintError)
        ELSE [Done([p.vm EXCEPT !.ip = m.ip + 1])
                EXCEPT !.print = <<PrintStderr(value_to_string(p.v))>>]

exec_STDERR(m, io) ==
    LET p == pop_value(m)
    IN  IF p.err # NoError THEN Fail(p.vm, p.err)
        ELSE IF p.v.tag # "String" THEN Fail(p.vm, InvalidStackValue)
        ELSE IF io.print_closed THEN Fail(p.vm, PrintError)
        ELSE [Done([p.vm EXCEPT !.ip = m.ip + 1]) EXCEPT !.print = <<PrintStderr(p.v.s)>>]

\* std::thread::sleep changes no state of the VM.
exec_SLEEP(m, io) ==
    LET o == operand(m)
    IN  IF ~o.ok \/ o.length # 8 THEN Fail(m, Panic)
        ELSE Done([m EXCEPT !.ip = o.end + o.length])

exec_STORE_VAR(m, io) ==
    LET k == operand(m)
        m2 == [m EXCEPT !.ip = k.end + k.length - 1]
        v == operand(m2)
    IN  IF ~k.ok \/ ~is_utf8(k.bytes) THEN Fail(m, Panic)
        ELSE IF ~v.ok \/ ~is_utf8(v.bytes) THEN Fail(m2, Panic)
        ELSE Done([m EXCEPT
                     !.vars = [x \in DOMAIN m.vars \cup {k.bytes} |->
                                  IF x = k.bytes THEN StringValue(v.bytes) ELSE m.vars[x]],
                     !.ip = v.end + v.length])

exec_LOAD_VAR(m, io) ==
    LET o == operand(m)
    IN  IF ~o.ok \/ ~is_utf8(o.bytes) THEN Fail(m, Panic)
        ELSE IF o.bytes \notin DOMAIN m.vars THEN Fail(m, MissingVar(o.bytes))
        ELSE set_ip(push_value(m, m.vars[o.bytes]), o.end + o.length)

exec_DUP(m, io) ==
    IF m.stack = <<>> THEN Fail(m, MissingStackFrame)
    ELSE LET frame == m.stack[Len(m.stack)]
         IN  IF frame = <<>> THEN Fail(m, StackUnderflow)
             ELSE set_ip(push_value(m, frame[Len(frame)]), m.ip + 1)

exec_JUMP(m, io) ==
    LET o == operand(m)
    IN  IF ~o.ok \/ ~is_utf8(o.bytes) THEN Fail(m, Panic)
        ELSE IF o.bytes \in DOMAIN m.label_jump_map
             THEN Done([m EXCEPT !.ip = m.label_jump_map[o.bytes]])
             ELSE Fail(m, MissingLabel(o.bytes))

\* A variant that looks for %d before %s; C6 does not hold of it.
exec_PRINTF_d_first(m, io) ==
    LET var == pop_value(m)
        template == pop_value(var.vm)
        m2 == template.vm
    IN  IF var.err # NoError THEN Fail(var.vm, var.err)
        ELSE IF template.err # NoError THEN Fail(m2, template.err)
        ELSE IF template.v.tag # "String" THEN Fail(m2, InvalidStackValue)
        ELSE IF contains(template.v.s, s_pct_d)
             THEN IF var.v.tag # "Int" THEN Fail(m2, InvalidStackValue)
                  ELSE set_ip(push_value(m2,
                           StringValue(replace(template.v.s, s_pct_d, to_string(var.v.n)))),
                           m.ip + 1)
        ELSE IF contains(template.v.s, s_pct_s)
             THEN IF var.v.tag # "String" THEN Fail(m2, InvalidStackValue)
                  ELSE set_ip(push_value(m2,
                           StringValue(replace(template.v.s, s_pct_s, var.v.s))), m.ip + 1)
        ELSE Fail(m2, InvalidTemplate(template.v.s))

\* A variant that replaces the first occurrence of the placeholder only; C5 does not
\* hold of it.
exec_PRINTF_first_only(m, io) ==
    LET var == pop_value(m)
        template == pop_value(var.vm)
        m2 == template.vm
        first(s, pat) == CHOOSE i \in 1..Len(s) :
                            /\ SubSeq(s, i, i + Len(pat) - 1) = pat
                            /\ \A j \in 1..(i - 1) : SubSeq(s, j, j + Len(pat) - 1) # pat
        replacen(s, pat, to) ==
            SubSeq(s, 1, first(s, pat) - 1) \o to \o SubSeq(s, first(s, pat) + Len(pat), Len(s))
    IN  IF var.err # NoError THEN Fail(var.vm, var.err)
        ELSE IF template.err # NoError THEN Fail(m2, template.err)
        ELSE IF template.v.tag # "String" THEN Fail(m2, InvalidStackValue)
        ELSE IF contains(template.v.s, s_pct_s)
             THEN IF var.v.tag # "String" THEN Fail(m2, InvalidStackValue)
                  ELSE set_ip(push_value(m2,
                           StringValue(replacen(template.v.s, s_pct_s, var.v.s))), m.ip + 1)
        ELSE IF contains(template.v.s, s_pct_d)
             THEN IF var.v.tag # "Int" THEN Fail(m2, InvalidStackValue)
                  ELSE set_ip(push_value(m2,
                           StringValue(replacen(template.v.s, s_pct_d, to_string(var.v.n)))),
                           m.ip + 1)
        ELSE Fail(m2, InvalidTemplate(template.v.s))

exec_PRINTF(m, io) ==
    LET var == pop_value(m)
        template == pop_value(var.vm)
        m2 == template.vm
    IN  IF var.err # NoError THEN Fail(var.vm, var.err)
        ELSE IF template.err # NoError THEN Fail(m2, template.err)
        ELSE IF template.v.tag # "String" THEN Fail(m2, InvalidStackValue)
        ELSE IF contains(template.v.s, s_pct_s)
             THEN IF var.v.tag # "String" THEN Fail(m2, InvalidStackValue)
                  ELSE set_ip(push_value(m2,
                           StringValue(replace(template.v.s, s_pct_s, var.v.s))), m.ip + 1)
        ELSE IF contains(template.v.s, s_pct_d)
             THEN IF var.v.tag # "Int" THEN Fail(m2, InvalidStackValue)
                  ELSE set_ip(push_value(m2,
                           StringValue(replace(template.v.s, s_pct_d, to_string(var.v.n)))),
                           m.ip + 1)
        ELSE Fail(m2, InvalidTemplate(template.v.s))

\* The label recorded at the greatest offset below ip.
find_current_function_name(m) ==
    LET below == {o \in DOMAIN m.label_index_map : o < m.ip}
    IN  IF below = {} THEN NoneStr
        ELSE Some(m.label_index_map[CHOOSE o \in below : \A x \in below : x <= o])

\* REMOTE_CALL popping its operands before it looks for the outbound channel; C22 does
\* not hold of it.
exec_REMOTE_CALL_pops_first(m, io) ==
    LET remote_method == pop_value(m)
        remote_service == pop_value(remote_method.vm)
        m2 == remote_service.vm
        local_function_name == find_current_function_name(m2)
    IN  IF remote_method.err # NoError THEN Fail(remote_method.vm, remote_method.err)
        ELSE IF remote_service.err # NoError THEN Fail(m2, remote_service.err)
        ELSE IF ~m.remote_call_tx THEN Fail(m2, RemoteCallError(s_tx_not_set))
        ELSE IF ~local_function_name.some THEN Fail(m2, MissingFunctionName)
        ELSE IF m.tracer /\ ~m.otel_context THEN Fail(m2, MissingContext)
        ELSE IF io.remote_closed THEN Fail(m2, RemoteCallError(s_channel_closed))
        ELSE [Done([m2 EXCEPT !.ip = m.ip + 1]) EXCEPT
                !.remote = << ServiceMessage(value_to_string(remote_service.v),
                                             value_to_string(remote_method.v),
                                             IF m.tracer THEN "client_span" ELSE "current") >>]

\* REMOTE_CALL taking the first value popped for the service.
exec_REMOTE_CALL_method_first(m, io) ==
    LET remote_method == pop_value(m)
        remote_service == pop_value(remote_method.vm)
        m2 == remote_service.vm
        local_function_name == find_current_function_name(m2)
    IN  IF ~m.remote_call_tx THEN Fail(m, RemoteCallError(s_tx_not_set))
        ELSE IF remote_method.err # NoError THEN Fail(remote_method.vm, remote_method.err)
        ELSE IF remote_service.err # NoError THEN Fail(m2, remote_service.err)
        ELSE IF ~local_function_name.some THEN Fail(m2, MissingFunctionName)
        ELSE IF m.tracer /\ ~m.otel_context THEN Fail(m2, MissingContext)
        ELSE IF io.remote_closed THEN Fail(m2, RemoteCallError(s_channel_closed))
        ELSE [Done([m2 EXCEPT !.ip = m.ip + 1]) EXCEPT
                !.remote = << ServiceMessage(value_to_string(remote_method.v),
                                             value_to_string(remote_service.v),
                                             IF m.tracer THEN "client_span" ELSE "current") >>]

\* A variant that sends the call with the current context when the worker has a tracer
\* and no context of its own; C39 does not hold of it.
exec_REMOTE_CALL_without_context(m, io) ==
    LET remote_method == pop_value(m)
        remote_service == pop_value(remote_method.vm)
        m2 == remote_service.vm
        local_function_name == find_current_function_name(m2)
    IN  IF ~m.remote_call_tx THEN Fail(m, RemoteCallError(s_tx_not_set))
        ELSE IF remote_method.err # NoError THEN Fail(remote_method.vm, remote_method.err)
        ELSE IF remote_service.err # NoError THEN Fail(m2, remote_service.err)
        ELSE IF ~local_function_name.some THEN Fail(m2, MissingFunctionName)
        ELSE IF io.remote_closed THEN Fail(m2, RemoteCallError(s_channel_closed))
        ELSE [Done([m2 EXCEPT !.ip = m.ip + 1]) EXCEPT
                !.remote = << ServiceMessage(value_to_string(remote_service.v),
                                             value_to_string(remote_method.v),
                                             IF m.tracer /\ m.otel_context
                                             THEN "client_span" ELSE "current") >>]

exec_REMOTE_CALL(m, io) ==
    LET remote_method == pop_value(m)
        remote_service == pop_value(remote_method.vm)
        m2 == remote_service.vm
        local_function_name == find_current_function_name(m2)
    IN  IF ~m.remote_call_tx THEN Fail(m, RemoteCallError(s_tx_not_set))
        ELSE IF remote_method.err # NoError THEN Fail(remote_method.vm, remote_method.err)
        ELSE IF remote_service.err # NoError THEN Fail(m2, remote_service.err)
        ELSE IF ~local_function_name.some THEN Fail(m2, MissingFunctionName)
        ELSE IF m.tracer /\ ~m.otel_context THEN Fail(m2, MissingContext)
        ELSE IF io.remote_closed THEN Fail(m2, RemoteCallError(s_channel_closed))
        ELSE [Done([m2 EXCEPT !.ip = m.ip + 1]) EXCEPT
                !.remote = << ServiceMessage(value_to_string(remote_service.v),
                                             value_to_string(remote_method.v),
                                             IF m.tracer THEN "client_span" ELSE "current") >>]

exec_START_CONTEXT(m, io) ==
    Done([m EXCEPT !.otel_context = IF m.tracer THEN TRUE ELSE @, !.ip = @ + 1])

\* END_CONTEXT going on when there is no context to end; C24 does not hold of it.
exec_END_CONTEXT_lenient(m, io) ==
    Done([m EXCEPT !.otel_context = FALSE, !.ip = @ + 1])

exec_END_CONTEXT(m, io) ==
    IF m.otel_context THEN Done([m EXCEPT !.otel_context = FALSE, !.ip = @ + 1])
    ELSE Fail(m, MissingSpan)

\* A variant that records the offset after the instruction at ip as the return address;
\* C9 does not hold of it.
handle_local_call_resume_after(m, label) ==
    LET next == IF ByteAt(m.code, m.ip) = CALL_CODE
                THEN operand(m).end + operand(m).length ELSE m.ip + 1
        m2 == [m EXCEPT !.return_addresses = Append(@, next), !.stack = Append(@, <<>>)]
    IN  IF label \in DOMAIN m.label_jump_map
        THEN Done([m2 EXCEPT !.ip = m.label_jump_map[label]])
        ELSE Fail(m2, MissingLabel(label))

\* handle_local_call giving the callee a copy of the caller's frame; C29 does not hold of it.
handle_local_call_copies_frame(m, label) ==
    LET m2 == [m EXCEPT !.return_addresses = Append(@, m.ip),
                        !.stack = Append(@, IF @ = <<>> THEN <<>> ELSE @[Len(@)])]
    IN  IF label \in DOMAIN m.label_jump_map
        THEN Done([m2 EXCEPT !.ip = m.label_jump_map[label]])
        ELSE Fail(m2, MissingLabel(label))

handle_local_call(m, label) ==
    LET m2 == [m EXCEPT !.return_addresses = Append(@, m.ip), !.stack = Append(@, <<>>)]
    IN  IF label \in DOMAIN m.label_jump_map
        THEN Done([m2 EXCEPT !.ip = m.label_jump_map[label]])
        ELSE Fail(m2, MissingLabel(label))

\* handle_remote_call polling as soon as the counter reaches the limit.
handle_remote_call_at_limit(m, io) ==
    IF ~m.remote_call_rx THEN Done(m)
    ELSE LET m2 == [m EXCEPT !.remote_call_counter = @ + 1]
         IN  IF m2.remote_call_counter >= m2.remote_call_limit
             THEN IF io.rx # <<>>
                  THEN LET out == handle_local_call(m2, s_start_ \o Head(io.rx))
                       IN  IF out.err # NoError THEN [out EXCEPT !.recv = TRUE]
                           ELSE [out EXCEPT !.recv = TRUE, !.vm.remote_call_counter = 0]
                  ELSE Done([m2 EXCEPT !.remote_call_counter = 0])
             ELSE Done(m2)

\* handle_remote_call jumping to the method instead of calling it: no frame, no return
\* address; C31 does not hold of it.
handle_remote_call_jumps(m, io) ==
    IF ~m.remote_call_rx THEN Done(m)
    ELSE LET m2 == [m EXCEPT !.remote_call_counter = @ + 1]
         IN  IF m2.remote_call_counter > m2.remote_call_limit
             THEN IF io.rx # <<>>
                  THEN LET label == s_start_ \o Head(io.rx)
                       IN  IF label \in DOMAIN m.label_jump_map
                           THEN [Done([m2 EXCEPT !.ip = m.label_jump_map[label],
                                                 !.remote_call_counter = 0])
                                   EXCEPT !.recv = TRUE]
                           ELSE [Fail(m2, MissingLabel(label)) EXCEPT !.recv = TRUE]
                  ELSE Done([m2 EXCEPT !.remote_call_counter = 0])
             ELSE Done(m2)

\* try_recv takes the head of the inbound channel io.rx when there is one.
handle_remote_call(m, io) ==
    IF ~m.remote_call_rx THEN Done(m)
    ELSE LET m2 == [m EXCEPT !.remote_call_counter = @ + 1]
         IN  IF m2.remote_call_counter > m2.remote_call_limit
             THEN IF io.rx # <<>>
                  THEN LET out == handle_local_call(m2, s_start_ \o Head(io.rx))
                       IN  IF out.err # NoError THEN [out EXCEPT !.recv = TRUE]
                           ELSE [out EXCEPT !.recv = TRUE, !.vm.remote_call_counter = 0]
                  ELSE Done([m2 EXCEPT !.remote_call_counter = 0])
             ELSE Done(m2)

\* A variant that moves past the CheckInterrupt when it has delivered no call; C37 does
\* not hold of it.
exec_CHECK_INTERRUPT_advances(m, io) ==
    LET out == handle_remote_call(m, io)
    IN  IF out.recv \/ out.err # NoError THEN out ELSE [out EXCEPT !.vm.ip = @ + 1]

exec_CHECK_INTERRUPT(m, io) == handle_remote_call(m, io)

exec_CALL(m, io) ==
    LET o == operand(m)
    IN  IF ~o.ok \/ ~is_utf8(o.bytes) THEN Fail(m, Panic)
        ELSE handle_local_call(m, o.bytes)

\* self.return_addresses.pop().unwrap() panics on an empty vector.
exec_RET(m, io) ==
    IF m.return_addresses = <<>> THEN Fail(m, Panic)
    ELSE Done([m EXCEPT !.ip = m.return_addresses[Len(m.return_addresses)],
                        !.return_addresses = SubSeq(@, 1, Len(@) - 1),
                        !.stack = SubSeq(@, 1, Len(@) - 1)])

\* A variant that moves past the byte it rejects; C40 does not hold of it.
exec_INVALID_advances(m, io) ==
    Fail([m EXCEPT !.ip = @ + 1], InvalidInstruction(ByteAt(m.code, m.ip)))

exec_INVALID(m, io) == Fail(m, InvalidInstruction(ByteAt(m.code, m.ip)))

\* A variant that stops as soon as the counter reaches the maximum; C2 does not hold of it.
run_check_at_limit(counter, max_execution_counter) ==
    IF max_execution_counter.some /\ counter >= max_execution_counter.v
    THEN MaxExecutionCounterReached
    ELSE Running

(***************************************************************************)
(* run(): after an instruction that returned no error the counter is       *)
(* incremented and compared with max_execution_counter.                    *)
(***************************************************************************)
run_check(counter, max_execution_counter) ==
    IF max_execution_counter.some /\ counter > max_execution_counter.v
    THEN MaxExecutionCounterReached
    ELSE Running

(***************************************************************************)
(* The services of the tests (src/src/vm.rs, tests) and of the scenarios.  *)
(***************************************************************************)
main_page_print == Method(s_main_page, <<StmtStdout(s_Main_page, NoneList)>>)
main_page_print_sleep == Method(s_main_page, <<StmtStdout(s_Main_page, NoneList), StmtSleep(1)>>)
loop_main_page == Loop(<<StmtCall(NoneStr, s_main_page)>>)

service == Service(s_frontend, <<main_page_print>>, <<>>)
service_with_loop == Service(s_frontend, <<main_page_print>>, <<loop_main_page>>)
service_with_local_call == Service(s_frontend, <<main_page_print_sleep>>, <<loop_main_page>>)
service_with_print_template ==
    Service(s_frontend,
            <<Method(s_main_page, <<StmtStdout(s_Main_page_s, Some(<<s_12345, s_67890>>))>>)>>,
            <<loop_main_page>>)
service_with_stderr_template ==
    Service(s_frontend,
            <<Method(s_main_page, <<StmtStderr(s_Main_page_s, Some(<<s_12345, s_67890>>))>>)>>,
            <<loop_main_page>>)
service_with_broken_template ==
    Service(s_frontend,
            <<Method(s_main_page, <<StmtStdout(s_Main_page, Some(<<s_12345, s_67890>>))>>)>>,
            <<loop_main_page>>)
service_with_empty_args ==
    Service(s_frontend,
            <<Method(s_main_page, <<StmtStdout(s_Main_page, Some(<<>>)), StmtSleep(1)>>)>>,
            <<loop_main_page>>)
service_products ==
    Service(s_products,
            <<Method(s_get_products,
                     <<StmtStdout(s_Fetching_s, Some(<<s_12345, s_67890>>)), StmtSleep(500)>>)>>,
            <<>>)
service_calls_products ==
    Service(s_frontend,
            <<Method(s_main_page, <<StmtCall(Some(s_products), s_get_products)>>)>>,
            <<loop_main_page>>)
\* A loop that calls a method the service does not declare.
service_with_undeclared_call ==
    Service(s_frontend, <<main_page_print>>, <<Loop(<<StmtCall(NoneStr, s_missing)>>)>>)
service_with_empty_loop == Service(s_frontend, <<main_page_print>>, <<Loop(<<>>)>>)
service_with_print_loop ==
    Service(s_frontend, <<main_page_print>>, <<Loop(<<StmtStdout(s_Main_page, NoneList)>>)>>)
service_with_remote_loop ==
    Service(s_frontend, <<main_page_print>>, <<Loop(<<StmtCall(Some(s_products), s_get_products)>>)>>)
\* A loop of two statements: a local call and a print.
service_with_two_statement_loop ==
    Service(s_frontend, <<main_page_print>>,
            <<Loop(<<StmtCall(NoneStr, s_main_page), StmtStdout(s_Main_page, NoneList)>>)>>)
service_with_local_call_in_method ==
    Service(s_frontend, <<Method(s_main_page, <<StmtCall(NoneStr, s_main_page)>>)>>, <<>>)
\* A loop that calls the name of the service's main label instead of a method.
service_with_loop_calling_main ==
    Service(s_frontend, <<main_page_print>>,
            <<Loop(<<StmtCall(NoneStr, s_frontend \o s__main)>>)>>)

Services ==
    { service, service_with_loop, service_with_local_call, service_with_print_template,
      service_with_stderr_template, service_with_broken_template, service_with_empty_args,
      service_products, service_calls_products, service_with_undeclared_call,
      service_with_empty_loop, service_with_print_loop, service_with_remote_loop,
      service_with_two_statement_loop,
      service_with_local_call_in_method, service_with_loop_calling_main }

(***************************************************************************)
(* Bounds of the model.                                                    *)
(***************************************************************************)
\* The longest instruction list drawn from Alphabet.
MaxProgramLen == 3
\* The largest max_execution_counter of the hand-written and drawn programs.
MaxCounter == 4
\* The instructions a run without max_execution_counter is followed for.
MaxSteps == 40

(***************************************************************************)
(* The instruction lists of the tests (src/src/vm.rs, tests), variants of  *)
(* them, and every list of at most MaxProgramLen instructions of Alphabet. *)
(***************************************************************************)
test_jmp_if_zero(n) ==
    << Push(StringValue(s_Unexpected)), Push(IntValue(n)), JmpIfZero(s_label),
       Stdout, Label(s_label) >>
test_jump == << Push(StringValue(s_Hello_s)), Jump(s_label), Stdout, Label(s_label) >>
test_printf(template, v) == << Push(StringValue(template)), Push(v), Printf, Stdout >>
test_store_var == << StoreVar(s_test, s_test), LoadVar(s_test), Stdout >>
test_dup == << Push(StringValue(s_Hello_s)), Dup, Stdout, Stdout >>
test_vm_creates_new_stackframe_on_call ==
    << Jump(s_main), Label(s_start_function), Stdout, Ret, Label(s_end_function),
       Label(s_main), Push(StringValue(s_world)), Call(s_start_function), Stdout >>
\* A function that prints, called once; the caller prints after the call.
call_and_continue ==
    << Jump(s_main), Label(s_start_function), Push(StringValue(s_x)), Stdout, Ret,
       Label(s_end_function), Label(s_main), Call(s_start_function),
       Push(StringValue(s_world)), Stdout >>
\* Jumps and calls whose label is not in the list.
missing_label_programs ==
    { << Jump(s_b) >>, << Call(s_b) >>,
      << Push(IntValue(0)), JmpIfZero(s_b), Push(StringValue(s_x)), Stdout >>,
      << Push(IntValue(1)), JmpIfZero(s_b), Push(StringValue(s_x)), Stdout >>,
      << Push(StringValue(s_x)), JmpIfZero(s_b) >>,
      << JmpIfZero(s_b) >> }
\* A counted loop, as LogByteCodeGenerator lays it out.
counted_loop(n) ==
    << Push(IntValue(n)), Label(s_a), Dup, JmpIfZero(s_b), Dec, Push(StringValue(s_x)),
       Stdout, Jump(s_a), Label(s_b), Pop >>
\* LogByteCodeGenerator::process_task for a task with count Amount(n), no vars and
\* severity Info: the two StoreVar of process_task, then task_with_count.
task_with_count(name, template, n, frequency) ==
    << Push(IntValue(n)), Label(s_loop_ \o name), Dup, JmpIfZero(s_end_ \o name), Dec,
       LoadVar(s_template), Stdout, Sleep(frequency), Jump(s_loop_ \o name),
       Label(s_end_ \o name), Pop >>
process_task(name, template, n, frequency) ==
    << StoreVar(s_name, name), StoreVar(s_template, template) >>
        \o task_with_count(name, template, n, frequency)
log_tasks == { process_task(s_log, s_x, n, 1) : n \in 0..2 }
context_programs ==
    { << StartContext, EndContext, EndContext >>,
      << StartContext, StartContext, EndContext, EndContext >>,
      << Label(s_f), StartContext, Push(StringValue(s_products)),
         Push(StringValue(s_get_products)), RemoteCall, EndContext >>,
      << Push(IntValue(1)), JmpIfZero(<<>>), Stderr, Sleep(1) >> }

test_push_int == << Push(IntValue(12345)), Stdout >>
\* Stderr with a String, with an Int and with nothing on the frame, each followed by
\* instructions that would print.
print_programs ==
    { test_push_int,
      << Push(StringValue(s_x)), Stderr, Push(StringValue(s_x)), Stdout >>,
      << Push(IntValue(12345)), Stderr, Push(StringValue(s_x)), Stdout >>,
      << Stderr, Push(StringValue(s_x)), Stdout >> }

Templates ==
    { s_Hello_s, s_Hello_d, s_Hello_bang, s_pct_s, s_s_and_s, s_s_and_d, s_d_and_d }
Values == { StringValue(s_world), StringValue(s_pct_s), IntValue(12345), IntValue(0) }

test_programs ==
    { test_jmp_if_zero(0), test_jmp_if_zero(1), test_jump, test_store_var, test_dup,
      test_vm_creates_new_stackframe_on_call, call_and_continue,
      counted_loop(0), counted_loop(2) }
    \cup { test_printf(t, v) : t \in Templates, v \in Values }
    \cup missing_label_programs \cup context_programs \cup print_programs \cup log_tasks

Alphabet ==
    { Push(StringValue(s_x)), Push(IntValue(0)), Push(IntValue(1)), Pop, Dec, Dup,
      JmpIfZero(s_a), Label(s_a), Jump(s_a), Call(s_a), Ret, Stdout }

RECURSIVE lists(_)
lists(n) ==
    IF n = 0 THEN { <<>> }
    ELSE LET shorter == lists(n - 1)
         IN  shorter \cup { Append(l, i) : l \in {x \in shorter : Len(x) = n - 1}, i \in Alphabet }

(***************************************************************************)
(* A scenario: how a VM is constructed and what surrounds it.  ast is the  *)
(* service the instructions were generated from, when they were.           *)
(***************************************************************************)
Scenario(ast, instructions, service_name, max, tx, rx, limit, tracer, inbound, size, printer, closed) ==
    [ ast |-> ast, instructions |-> instructions, service_name |-> service_name,
      max |-> max, tx |-> tx, rx |-> rx, limit |-> limit, tracer |-> tracer,
      inbound |-> inbound, print_queue_size |-> size, printer |-> printer,
      print_closed |-> closed, remote_closed |-> FALSE ]

NoAst == [some |-> FALSE, v |-> service]

\* Programs run as the tests run them: no remote channels, a print channel of 10,
\* nobody receiving from it while run() runs.
program_scenarios(programs, maxima) ==
    { Scenario(NoAst, p, s_test, max, FALSE, FALSE, 10000, FALSE, <<>>, 10, FALSE, FALSE) :
        p \in programs, max \in maxima }

small_maxima == {None} \cup { Some(n) : n \in 0..MaxCounter }
\* with_max_execution_counter(10), (15) and (30) of the tests.
test_maxima == { Some(10), Some(15), Some(30) }

\* What may wait on remote_in of a worker of service s: names of its methods, and a
\* name it does not declare.
inbounds(s) ==
    LET names == { s.methods[i].name : i \in 1..Len(s.methods) }
    IN  { <<>>, <<s_missing>> } \cup { <<n>> : n \in names } \cup { <<n, n>> : n \in names }

generated_scenarios ==
    LET ok == { s \in Services : process(s).ok }
        gen(s) == process(s).instructions
    IN  { Scenario(Some(s), gen(s), s.name, max, tx, FALSE, 10000, FALSE, <<>>, 10, FALSE, FALSE) :
            s \in ok, max \in test_maxima, tx \in BOOLEAN }
        \cup
        UNION { { Scenario(Some(s), gen(s), s.name, Some(15), FALSE, TRUE, limit, FALSE, inb, 5,
                           FALSE, FALSE) : inb \in inbounds(s), limit \in {1, 2} } : s \in ok }
        \cup
        \* As main.rs runs a service: channels of 1, a task printing what is sent.
        { Scenario(Some(s), gen(s), s.name, Some(10), TRUE, TRUE, 1, tr, <<>>, 1, TRUE, FALSE) :
            s \in ok, tr \in BOOLEAN }

Scenarios ==
    generated_scenarios
    \cup program_scenarios(test_programs, small_maxima \cup {Some(10)})
    \cup program_scenarios(lists(MaxProgramLen), small_maxima)
    \cup { Scenario(NoAst, p, s_test, None, TRUE, FALSE, 10000, tr, <<>>, 10, FALSE, cl) :
             p \in context_programs \cup print_programs \cup {test_dup},
             tr \in BOOLEAN, cl \in BOOLEAN }
    \* The receiver of the outbound remote-call channel has been dropped.
    \cup { [Scenario(NoAst, p, s_test, None, TRUE, FALSE, 10000, tr, <<>>, 10, FALSE, FALSE)
               EXCEPT !.remote_closed = TRUE] : p \in context_programs, tr \in BOOLEAN }

(***************************************************************************)
(* The state: one VM worker and its channels.                              *)
(***************************************************************************)
VARIABLES
    input,              \* the scenario: what VM::new and the builders were given
    vm,                 \* the VM
    execution_counter,  \* run()'s local counter
    result,             \* what run() returned; Running until it returns
    overflow_checks,    \* whether the build panics on integer overflow (debug) or wraps
    print_chan,         \* the messages in the print channel
    logged,             \* the messages the receiver of the print channel has taken
    main_chan,          \* the ServiceMessages in the outbound remote-call channel
    remote_in,          \* the method names in the inbound remote-call channel
    call_depths         \* history: for each return address, the frames there were before
                        \* the call that pushed it

\* The system of main.rs: the workers of all the services of a program and the
\* ServiceCoordinator between them.
VARIABLES
    program,            \* the services execute_code was given
    workers,            \* for each service name, the VM of its worker and what run() returned
    coordinator,        \* the ServiceCoordinator: services, remote_call_counter, and the
                        \* message whose send it is suspended in
    main_rx,            \* the ServiceMessages in the coordinator's main channel
    remote_call_rx,     \* for each service name, the method names in its inbound channel
    print_rx,           \* for each service name, the messages in its print channel
    history,            \* history: for each worker, which of its calls was the last to
                        \* reach the coordinator, and the last to be forwarded
    running             \* the task the runtime's thread is polling, when the runtime has one
                        \* thread

vm_vars == <<input, vm, execution_counter, result, overflow_checks, print_chan, logged,
             main_chan, remote_in, call_depths>>
system_vars == <<program, workers, coordinator, main_rx, remote_call_rx, print_rx, history,
                 running>>
vars == <<vm_vars, system_vars>>

\* No system: the one worker of Spec runs alone, as in the tests of src/src/vm.rs.
NoSystem ==
    /\ program = <<>>
    /\ workers = <<>>
    /\ coordinator = <<>>
    /\ main_rx = <<>>
    /\ remote_call_rx = <<>>
    /\ print_rx = <<>>
    /\ history = <<>>
    /\ running = <<>>

\* mpsc::channel(10) of the remote-call channel in the tests (src/src/vm.rs).
remote_queue_size == 10

\* Every message sent on the print channel so far, in the order sent.
print_out == logged \o print_chan

construct(sc) ==
    LET m0 == new(sc.instructions, sc.service_name)
        m1 == IF sc.max.some THEN with_max_execution_counter(m0, sc.max.v) ELSE m0
        m2 == IF sc.tx THEN with_remote_call_tx(m1) ELSE m1
        m3 == IF sc.rx THEN with_custom_remote_call_limit(with_remote_call_rx(m2), sc.limit) ELSE m2
    IN  IF sc.tracer THEN with_tracer(m3) ELSE m3

Init ==
    /\ input \in Scenarios
    /\ vm = construct(input)
    /\ execution_counter = 0
    /\ result = Running
    /\ overflow_checks \in
          IF \E i \in 1..Len(input.instructions) : input.instructions[i] = Dec
          THEN BOOLEAN ELSE {TRUE}
    /\ print_chan = <<>>
    /\ logged = <<>>
    /\ main_chan = <<>>
    /\ remote_in = input.inbound
    /\ call_depths = <<>>
    /\ NoSystem

IO == [ rx |-> remote_in, overflow_checks |-> overflow_checks,
        print_closed |-> input.print_closed, remote_closed |-> input.remote_closed ]

\* The opcode byte run() is about to decode, -1 when it decodes none.
Fetch ==
    IF result = Running /\ vm.ip < Len(vm.code) /\ execution_counter < MaxSteps
    THEN ByteAt(vm.code, vm.ip)
    ELSE -1

\* One iteration of run()'s loop, out being what execute_instruction did.  A send on a
\* full channel suspends the worker: the iteration is not taken.
Commit(out) ==
    /\ Len(print_chan) + Len(out.print) <= input.print_queue_size
    /\ Len(main_chan) + Len(out.remote) <= remote_queue_size
    /\ vm' = out.vm
    /\ print_chan' = print_chan \o out.print
    /\ main_chan' = main_chan \o out.remote
    /\ remote_in' = IF out.recv THEN Tail(remote_in) ELSE remote_in
    /\ IF out.err # NoError
       THEN result' = out.err /\ execution_counter' = execution_counter
       ELSE /\ execution_counter' = execution_counter + 1
            /\ result' = run_check(execution_counter + 1, vm.max_execution_counter)
    /\ call_depths' =
          IF Len(out.vm.return_addresses) > Len(vm.return_addresses)
          THEN Append(call_depths, Len(vm.stack))
          ELSE IF Len(out.vm.return_addresses) < Len(vm.return_addresses)
          THEN SubSeq(call_depths, 1, Len(call_depths) - 1)
          ELSE call_depths
    /\ UNCHANGED <<input, overflow_checks, logged>>
    /\ UNCHANGED system_vars

\* execute_instruction's match on the opcode byte, one action for each arm.
PushString == Fetch = PUSH_STRING_CODE /\ Commit(exec_PUSH_STRING(vm, IO))
PushInt == Fetch = PUSH_INT_CODE /\ Commit(exec_PUSH_INT(vm, IO))
DoPop == Fetch = POP_CODE /\ Commit(exec_POP(vm, IO))
DoDec == Fetch = DEC_CODE /\ Commit(exec_DEC(vm, IO))
DoJmpIfZero == Fetch = JMP_IF_ZERO_CODE /\ Commit(exec_JMP_IF_ZERO(vm, IO))
DoLabel == Fetch = LABEL_CODE /\ Commit(exec_LABEL(vm, IO))
DoStdout == Fetch = STDOUT_CODE /\ Commit(exec_STDOUT(vm, IO))
DoStderr == Fetch = STDERR_CODE /\ Commit(exec_STDERR(vm, IO))
DoSleep == Fetch = SLEEP_CODE /\ Commit(exec_SLEEP(vm, IO))
DoStoreVar == Fetch = STORE_VAR_CODE /\ Commit(exec_STORE_VAR(vm, IO))
DoLoadVar == Fetch = LOAD_VAR_CODE /\ Commit(exec_LOAD_VAR(vm, IO))
DoDup == Fetch = DUP_CODE /\ Commit(exec_DUP(vm, IO))
DoJump == Fetch = JUMP_CODE /\ Commit(exec_JUMP(vm, IO))
DoPrintf == Fetch = PRINTF_CODE /\ Commit(exec_PRINTF(vm, IO))
DoRemoteCall == Fetch = REMOTE_CALL_CODE /\ Commit(exec_REMOTE_CALL(vm, IO))
DoStartContext == Fetch = START_CONTEXT_CODE /\ Commit(exec_START_CONTEXT(vm, IO))
DoEndContext == Fetch = END_CONTEXT_CODE /\ Commit(exec_END_CONTEXT(vm, IO))
DoCheckInterrupt == Fetch = CHECK_INTERRUPT_CODE /\ Commit(exec_CHECK_INTERRUPT(vm, IO))
DoCall == Fetch = CALL_CODE /\ Commit(exec_CALL(vm, IO))
DoRet == Fetch = RET_CODE /\ Commit(exec_RET(vm, IO))
DoInvalid == (Fetch = 0 \/ Fetch > RET_CODE) /\ Commit(exec_INVALID(vm, IO))

\* while self.ip < self.code.len() ends the loop: run() returns Ok(()).
RunOk ==
    /\ result = Running
    /\ vm.ip >= Len(vm.code)
    /\ result' = Ok
    /\ UNCHANGED <<input, vm, execution_counter, overflow_checks, print_chan, logged,
                   main_chan, remote_in, call_depths>>
    /\ UNCHANGED system_vars

\* The task of main.rs that receives from the print channel and logs the message.
PrintRecv ==
    /\ input.printer
    /\ print_chan # <<>>
    /\ logged' = Append(logged, Head(print_chan))
    /\ print_chan' = Tail(print_chan)
    /\ UNCHANGED <<input, vm, execution_counter, result, overflow_checks, main_chan, remote_in,
                   call_depths>>
    /\ UNCHANGED system_vars

Next ==
    \/ PushString \/ PushInt \/ DoPop \/ DoDec \/ DoJmpIfZero \/ DoLabel \/ DoStdout
    \/ DoStderr \/ DoSleep \/ DoStoreVar \/ DoLoadVar \/ DoDup \/ DoJump \/ DoPrintf
    \/ DoRemoteCall \/ DoStartContext \/ DoEndContext \/ DoCheckInterrupt \/ DoCall
    \/ DoRet \/ DoInvalid \/ RunOk \/ PrintRecv

Spec == Init /\ [][Next]_vars

(***************************************************************************)
(* The system main.rs runs: execute_code generates the code of every       *)
(* service of the program, execute_service registers the service with the  *)
(* coordinator and spawns its worker and its print task, and then the      *)
(* coordinator's run() is spawned.                                         *)
(***************************************************************************)

\* The programs given to execute_code.
products_server ==
    Service(s_products,
            << Method(s_get_products, <<StmtSleep(1)>>),
               Method(s_get_prices, <<StmtSleep(1)>>),
               Method(s_get_stock, <<StmtSleep(1)>>) >>,
            <<>>)
products_printing ==
    Service(s_products,
            <<Method(s_get_products, <<StmtStdout(s_Main_page, NoneList)>>)>>,
            <<>>)
frontend_two_calls ==
    Service(s_frontend,
            <<Method(s_main_page, << StmtCall(Some(s_products), s_get_products),
                                     StmtCall(Some(s_products), s_get_prices) >>)>>,
            <<loop_main_page>>)
checkout ==
    Service(s_checkout,
            <<Method(s_pay, <<StmtCall(Some(s_products), s_get_stock)>>)>>,
            <<Loop(<<StmtCall(NoneStr, s_pay)>>)>>)
\* A service with a loop that is also the target of a call.
frontend_calls_itself ==
    Service(s_frontend,
            <<Method(s_main_page, << StmtCall(Some(s_frontend), s_main_page),
                                     StmtCall(Some(s_products), s_get_products) >>)>>,
            <<loop_main_page>>)
\* Calls to a service the program does not have (orders) and to one whose run() returns.
frontend_calls_unknown ==
    Service(s_frontend,
            <<Method(s_main_page, << StmtCall(Some(s_orders), s_create),
                                     StmtCall(Some(s_audit), s_log),
                                     StmtCall(Some(s_products), s_get_products) >>)>>,
            <<loop_main_page>>)
audit == Service(s_audit, <<Method(s_log, <<StmtSleep(1)>>)>>, <<Loop(<<>>)>>)
\* With service_calls_products: two services with a loop that call each other.
products_calls_frontend ==
    Service(s_products,
            <<Method(s_get_products, <<StmtCall(Some(s_frontend), s_main_page)>>)>>,
            <<Loop(<<StmtCall(NoneStr, s_get_products)>>)>>)

Programs ==
    { << frontend_two_calls, checkout, products_server >>,
      << frontend_calls_itself, products_printing >>,
      << frontend_calls_unknown, audit, products_printing >>,
      << service_calls_products, products_calls_frontend >>,
      \* get_prices is called and products does not declare it.
      << frontend_two_calls, products_printing >> }

ServiceNames == { s_frontend, s_checkout, s_products, s_audit }

\* Scaled: mpsc::channel(100) of ServiceCoordinator::new.
MaxMainQueue == 2
\* Scaled: the 10000 iterations of ServiceCoordinator::run between two try_recv.
MaxCoordinatorCounter == 1
\* Scaled: remote_call_limit, 10000 in VM::new.
MaxRemoteCallLimit == 0
\* mpsc::channel(1) of execute_service, for the print channel and for the method channel.
print_channel_size == 1
remote_call_channel_size == 1

NoMessage == [some |-> FALSE, v |-> ServiceMessage(<<>>, <<>>, "current")]

\* The remote calls of a service, in the order its method makes them.
calls(s) ==
    LET statements == Head(s.methods).statements
        at == { i \in 1..Len(statements) :
                  statements[i].kind = "Call" /\ statements[i].service.some }
        nth[k \in 0..Len(statements)] ==
            IF k = 0 THEN <<>>
            ELSE IF k \in at
                 THEN Append(nth[k - 1], ServiceMessage(statements[k].service.v,
                                                        statements[k].method, "current"))
                 ELSE nth[k - 1]
    IN  nth[Len(statements)]

\* execute_service: the VM of a service's worker.
execute_service(s, limit) ==
    with_custom_remote_call_limit(
        with_remote_call_rx(with_remote_call_tx(new(process(s).instructions, s.name))),
        limit)

\* execute_instruction's match on the opcode byte.
execute_instruction(m, io) ==
    LET instruction == ByteAt(m.code, m.ip)
    IN  CASE instruction = PUSH_STRING_CODE -> exec_PUSH_STRING(m, io)
          [] instruction = PUSH_INT_CODE -> exec_PUSH_INT(m, io)
          [] instruction = POP_CODE -> exec_POP(m, io)
          [] instruction = DEC_CODE -> exec_DEC(m, io)
          [] instruction = JMP_IF_ZERO_CODE -> exec_JMP_IF_ZERO(m, io)
          [] instruction = LABEL_CODE -> exec_LABEL(m, io)
          [] instruction = STDOUT_CODE -> exec_STDOUT(m, io)
          [] instruction = STDERR_CODE -> exec_STDERR(m, io)
          [] instruction = SLEEP_CODE -> exec_SLEEP(m, io)
          [] instruction = STORE_VAR_CODE -> exec_STORE_VAR(m, io)
          [] instruction = LOAD_VAR_CODE -> exec_LOAD_VAR(m, io)
          [] instruction = DUP_CODE -> exec_DUP(m, io)
          [] instruction = JUMP_CODE -> exec_JUMP(m, io)
          [] instruction = PRINTF_CODE -> exec_PRINTF(m, io)
          [] instruction = REMOTE_CALL_CODE -> exec_REMOTE_CALL(m, io)
          [] instruction = START_CONTEXT_CODE -> exec_START_CONTEXT(m, io)
          [] instruction = END_CONTEXT_CODE -> exec_END_CONTEXT(m, io)
          [] instruction = CHECK_INTERRUPT_CODE -> exec_CHECK_INTERRUPT(m, io)
          [] instruction = CALL_CODE -> exec_CALL(m, io)
          [] instruction = RET_CODE -> exec_RET(m, io)
          [] OTHER -> exec_INVALID(m, io)

\* The receiver of a worker's method channel is dropped with its VM, when run() returns.
closed(w) == workers[w].result # Running

\* try_recv taking the newest message of the channel.
try_recv_newest(channel) ==
    [msg |-> channel[Len(channel)], rest |-> SubSeq(channel, 1, Len(channel) - 1)]

\* main_rx.try_recv() with what it leaves in the channel.
try_recv(channel) == [msg |-> Head(channel), rest |-> Tail(channel)]

\* handle_remote_call sending the method name to every service that has room for it.
coordinator_handle_remote_call_broadcast(services, channels, msg) ==
    IF msg.to \in services
    THEN IF closed(msg.to)
         THEN [channels |-> channels, sending |-> NoMessage]
         ELSE IF Len(channels[msg.to]) < remote_call_channel_size
         THEN [channels |-> [w \in DOMAIN channels |->
                               IF closed(w) \/ Len(channels[w]) >= remote_call_channel_size
                               THEN channels[w] ELSE Append(channels[w], msg.function)],
               sending |-> NoMessage]
         ELSE [channels |-> channels, sending |-> Some(msg)]
    ELSE [channels |-> channels, sending |-> NoMessage]

\* handle_remote_call dropping a method name the target does not declare; C38 does not
\* hold of it.
coordinator_handle_remote_call_checked(services, channels, msg) ==
    IF msg.to \in services
    THEN IF closed(msg.to)
            \/ s_start_ \o msg.function \notin DOMAIN workers[msg.to].vm.label_jump_map
         THEN [channels |-> channels, sending |-> NoMessage]
         ELSE IF Len(channels[msg.to]) < remote_call_channel_size
         THEN [channels |-> [channels EXCEPT ![msg.to] = Append(@, msg.function)],
               sending |-> NoMessage]
         ELSE [channels |-> channels, sending |-> Some(msg)]
    ELSE [channels |-> channels, sending |-> NoMessage]

\* ServiceCoordinator::handle_remote_call: the channels after it and, when the send is
\* suspended on a full channel, the message it is suspended with.
coordinator_handle_remote_call(services, channels, msg) ==
    IF msg.to \in services
    THEN IF closed(msg.to)
         THEN [channels |-> channels, sending |-> NoMessage]
         ELSE IF Len(channels[msg.to]) < remote_call_channel_size
         THEN [channels |-> [channels EXCEPT ![msg.to] = Append(@, msg.function)],
               sending |-> NoMessage]
         ELSE [channels |-> channels, sending |-> Some(msg)]
    ELSE [channels |-> channels, sending |-> NoMessage]

\* The worker whose method makes the call msg, and the place of the call among its calls.
caller(msg) ==
    CHOOSE i \in 1..Len(program) : \E k \in 1..Len(calls(program[i])) :
        calls(program[i])[k] = msg
place(msg) ==
    CHOOSE k \in 1..Len(calls(program[caller(msg)])) : calls(program[caller(msg)])[k] = msg

\* The tasks main.rs spawns: the coordinator, and for each service its worker and its
\* print task.  A task is polled until it returns Pending or is done.
Task(kind, w) == [task |-> kind, of |-> w]
Coordinator == Task("coordinator", <<>>)
Worker(w) == Task("worker", w)
Printer(w) == Task("print", w)
\* The thread is free.
NoTask == Task("none", <<>>)
\* The runtime has a thread for every task: no task waits for another to return Pending.
AnyTask == Task("any", <<>>)

\* The runtime can poll task t, and what the thread is doing while t goes on.
Holds(t) == running \in {AnyTask, NoTask, t}
Held(t) == IF running = AnyTask THEN AnyTask ELSE t
Released == IF running = AnyTask THEN AnyTask ELSE NoTask

\* execute_code: the workers, their channels and the coordinator, nothing run yet.
execute_code(programs, limit) ==
    /\ program \in programs
    /\ workers = [ w \in { program[i].name : i \in 1..Len(program) } |->
                     LET s == CHOOSE s \in { program[i] : i \in 1..Len(program) } : s.name = w
                     IN  [ vm |-> execute_service(s, limit), result |-> Running ] ]
    /\ coordinator = [ services |-> { program[i].name : i \in 1..Len(program) },
                       remote_call_counter |-> 0,
                       sending |-> NoMessage ]
    /\ main_rx = <<>>
    /\ remote_call_rx = [ w \in DOMAIN workers |-> <<>> ]
    /\ print_rx = [ w \in DOMAIN workers |-> <<>> ]
    /\ history = [ arrived |-> [ i \in 1..Len(program) |-> 0 ],
                   forwarded |-> [ i \in 1..Len(program) |-> 0 ] ]
    /\ input = Scenario(NoAst, <<>>, s_test, None, FALSE, FALSE, 10000, FALSE, <<>>, 10,
                        FALSE, FALSE)
    /\ vm = construct(input)
    /\ execution_counter = 0
    /\ result = Running
    /\ overflow_checks = TRUE
    /\ print_chan = <<>>
    /\ logged = <<>>
    /\ main_chan = <<>>
    /\ remote_in = <<>>
    /\ call_depths = <<>>

\* #[tokio::main] with a thread for every task.
InitSystem == execute_code(Programs, MaxRemoteCallLimit) /\ running = AnyTask

\* One iteration of run()'s loop in the worker of service w.  A send on a full channel
\* suspends the worker.  run()'s execution_counter, which nothing reads when there is
\* no max_execution_counter, is left out.
WorkerStep(w) ==
    /\ Holds(Worker(w))
    /\ w \in DOMAIN workers
    /\ workers[w].result = Running
    /\ workers[w].vm.ip < Len(workers[w].vm.code)
    /\ LET out == execute_instruction(workers[w].vm,
                      [ rx |-> remote_call_rx[w], overflow_checks |-> TRUE,
                        print_closed |-> FALSE, remote_closed |-> FALSE ])
       IN  /\ Len(print_rx[w]) + Len(out.print) <= print_channel_size
           /\ Len(main_rx) + Len(out.remote) <= MaxMainQueue
           /\ workers' = [workers EXCEPT ![w] =
                            [ vm |-> out.vm,
                              result |-> IF out.err # NoError THEN out.err ELSE Running ]]
           /\ print_rx' = [print_rx EXCEPT ![w] = @ \o out.print]
           /\ main_rx' = main_rx \o out.remote
           /\ remote_call_rx' = [remote_call_rx EXCEPT ![w] = IF out.recv THEN Tail(@) ELSE @]
    /\ UNCHANGED <<program, coordinator, history>>
    /\ running' = Held(Worker(w))
    /\ UNCHANGED vm_vars

\* The loop of run() ends: the worker's run() returns Ok(()) and its VM is dropped.
WorkerReturn(w) ==
    /\ Holds(Worker(w))
    /\ w \in DOMAIN workers
    /\ workers[w].result = Running
    /\ workers[w].vm.ip >= Len(workers[w].vm.code)
    /\ workers' = [workers EXCEPT ![w].result = Ok]
    /\ UNCHANGED <<program, coordinator, main_rx, remote_call_rx, print_rx, history>>
    /\ running' = Released
    /\ UNCHANGED vm_vars

\* The print task of service w receives a message and logs it.
PrintTask(w) ==
    /\ Holds(Printer(w))
    /\ w \in DOMAIN workers
    /\ print_rx[w] # <<>>
    /\ print_rx' = [print_rx EXCEPT ![w] = Tail(@)]
    /\ UNCHANGED <<program, workers, coordinator, main_rx, remote_call_rx, history>>
    /\ running' = Held(Printer(w))
    /\ UNCHANGED vm_vars

\* An iteration of ServiceCoordinator::run that only counts.
CoordinatorCount ==
    /\ Holds(Coordinator)
    /\ ~coordinator.sending.some
    /\ coordinator.remote_call_counter + 1 <= MaxCoordinatorCounter
    /\ coordinator' = [coordinator EXCEPT !.remote_call_counter = @ + 1]
    /\ UNCHANGED <<program, workers, main_rx, remote_call_rx, print_rx, history>>
    /\ running' = Held(Coordinator)
    /\ UNCHANGED vm_vars

\* What the history is once the send of msg has completed.
Forwarded(msg) == [history EXCEPT !.forwarded[caller(msg)] = place(msg)]

\* An iteration of ServiceCoordinator::run that polls the main channel: try_recv, and
\* handle_remote_call for the message received, up to the end of the iteration or to the
\* send that suspends it.
CoordinatorPoll ==
    /\ Holds(Coordinator)
    /\ ~coordinator.sending.some
    /\ coordinator.remote_call_counter + 1 > MaxCoordinatorCounter
    /\ IF main_rx = <<>>
       THEN /\ coordinator' = [coordinator EXCEPT !.remote_call_counter = 0]
            /\ UNCHANGED <<main_rx, remote_call_rx, history>>
       ELSE LET received == try_recv(main_rx)
                out == coordinator_handle_remote_call(coordinator.services, remote_call_rx,
                                                      received.msg)
            IN  /\ main_rx' = received.rest
                /\ remote_call_rx' = out.channels
                /\ coordinator' =
                      [coordinator EXCEPT
                         !.sending = out.sending,
                         !.remote_call_counter = IF out.sending.some THEN @ + 1 ELSE 0]
                /\ history' =
                      [ (IF out.channels # remote_call_rx
                         THEN Forwarded(received.msg) ELSE history)
                        EXCEPT !.arrived[caller(received.msg)] = place(received.msg) ]
    /\ UNCHANGED <<program, workers, print_rx>>
    /\ running' = Held(Coordinator)
    /\ UNCHANGED vm_vars

\* The suspended send of handle_remote_call completes, the channel having room or being
\* closed, and the iteration of run() ends.
CoordinatorSend ==
    /\ Holds(Coordinator)
    /\ coordinator.sending.some
    /\ LET out == coordinator_handle_remote_call(coordinator.services, remote_call_rx,
                                                 coordinator.sending.v)
       IN  /\ ~out.sending.some
           /\ remote_call_rx' = out.channels
           /\ history' = IF out.channels # remote_call_rx
                         THEN Forwarded(coordinator.sending.v) ELSE history
    /\ coordinator' = [coordinator EXCEPT !.sending = NoMessage, !.remote_call_counter = 0]
    /\ UNCHANGED <<program, workers, main_rx, print_rx>>
    /\ running' = Held(Coordinator)
    /\ UNCHANGED vm_vars

NextSystem ==
    \/ \E w \in ServiceNames : WorkerStep(w)
    \/ \E w \in ServiceNames : WorkerReturn(w)
    \/ \E w \in ServiceNames : PrintTask(w)
    \/ CoordinatorCount
    \/ CoordinatorPoll
    \/ CoordinatorSend

System == InitSystem /\ [][NextSystem]_vars

(***************************************************************************)
(* The same tasks on a runtime with one thread.  A task keeps the thread   *)
(* until a poll of it returns Pending: a send().await on a full channel,   *)
(* a recv().await on an empty one, or the end of the task.  try_recv and   *)
(* std::thread::sleep never return Pending.                                *)
(***************************************************************************)
\* A service whose method prints twice, and once.
products_two_prints ==
    Service(s_products,
            << Method(s_get_products, << StmtStdout(s_Main_page, NoneList),
                                         StmtStdout(s_Main_page, NoneList) >>),
               Method(s_get_prices, <<StmtStdout(s_Main_page, NoneList)>>) >>,
            <<>>)

ScheduledPrograms ==
    { << service_with_loop, products_printing, audit >>,
      << frontend_two_calls, products_two_prints >> }

\* Scaled: remote_call_limit, 10000 in VM::new.
ScheduledRemoteCallLimit == 1

InitScheduled ==
    execute_code(ScheduledPrograms, ScheduledRemoteCallLimit) /\ running = NoTask

\* What task t does when polled.
Poll(t) ==
    CASE t.task = "worker" -> WorkerStep(t.of) \/ WorkerReturn(t.of)
      [] t.task = "print" -> PrintTask(t.of)
      [] t.task = "coordinator" -> CoordinatorCount \/ CoordinatorPoll \/ CoordinatorSend
      [] OTHER -> FALSE

\* The task that has the thread returns Pending, or has ended.
Suspend ==
    /\ running \notin {AnyTask, NoTask}
    /\ ~ENABLED Poll(running)
    /\ running' = NoTask
    /\ UNCHANGED <<program, workers, coordinator, main_rx, remote_call_rx, print_rx, history>>
    /\ UNCHANGED vm_vars

NextScheduled ==
    \/ \E w \in ServiceNames : WorkerStep(w)
    \/ \E w \in ServiceNames : WorkerReturn(w)
    \/ \E w \in ServiceNames : PrintTask(w)
    \/ CoordinatorCount
    \/ CoordinatorPoll
    \/ CoordinatorSend
    \/ Suspend

Scheduled == InitScheduled /\ [][NextScheduled]_vars

\* The thread never rests while a task can be polled.
\* and a task that can be polled again and again when the thread is free is polled.
FairScheduled ==
    /\ Scheduled
    /\ WF_vars(NextScheduled)
    /\ \A w \in ServiceNames :
          SF_vars(PrintTask(w)) /\ SF_vars(WorkerStep(w) \/ WorkerReturn(w))
    /\ SF_vars(CoordinatorCount \/ CoordinatorPoll \/ CoordinatorSend)

(***************************************************************************)
(* The claims of the specification, settled against the model.             *)
(***************************************************************************)

\* C1, as the specification states it: after a Call(L); ...; Ret sequence, ip is the
\* byte offset immediately after the Call instruction and the frame stack has the depth
\* it had before the Call.
C1_RetResumesAfterCall ==
    [][ (DoRet /\ vm.return_addresses # <<>>) =>
          LET at == vm.return_addresses[Len(vm.return_addresses)]
              call == operand([vm EXCEPT !.ip = at])
          IN  (ByteAt(vm.code, at) = CALL_CODE /\ call.ok) =>
                 /\ vm'.ip = call.end + call.length
                 /\ Len(vm'.stack) = call_depths[Len(call_depths)] ]_vars

\* C2: with max_execution_counter = N, run() returns MaxExecutionCounterReached only
\* when exactly N + 1 instructions have been executed, and what the (N+1)-th did is
\* done (a Stdout has sent its message, a Push has pushed its value); run() returns Ok
\* only with ip at the end of the bytecode and at most N instructions executed.
C2_MaxExecutionCounter ==
    /\ [](result = MaxExecutionCounterReached =>
            /\ vm.max_execution_counter.some
            /\ execution_counter = vm.max_execution_counter.v + 1)
    /\ [](result = Ok =>
            /\ vm.ip >= Len(vm.code)
            /\ vm.max_execution_counter.some =>
                  execution_counter <= vm.max_execution_counter.v)
    /\ [][ (result = Running /\ result' = MaxExecutionCounterReached) =>
             /\ execution_counter' = execution_counter + 1
             /\ Fetch = STDOUT_CODE =>
                  LET frame == vm.stack[Len(vm.stack)]
                  IN  print_chan' = Append(print_chan,
                                           PrintStdout(value_to_string(frame[Len(frame)])))
             /\ Fetch \in {PUSH_STRING_CODE, PUSH_INT_CODE} =>
                  Len(vm'.stack[Len(vm.stack)]) = Len(vm.stack[Len(vm.stack)]) + 1 ]_vars

\* C2's case: Push, Stdout under max_execution_counter = 1 ends with
\* MaxExecutionCounterReached after 2 instructions, the message of the second sent.
C2_Witness ==
    /\ input.instructions = << Push(StringValue(s_x)), Stdout >>
    /\ input.max = Some(1)
    /\ result = MaxExecutionCounterReached
    /\ execution_counter = 2
    /\ print_out = << PrintStdout(s_x) >>

\* C3, as the specification states it: at every instruction boundary of run() the frame
\* stack is non-empty and |frames| = |return_addrs| + 1.
C3_FramesInvariant ==
    result = Running =>
        /\ vm.stack # <<>>
        /\ Len(vm.stack) = Len(vm.return_addresses) + 1

\* C4, as the specification states it: JmpIfZero(L) pops the top of the current frame;
\* with Int(0) the next instruction is the one at label_to_offset[L], with a non-zero
\* Int it is the one immediately following the JmpIfZero, and a non-Int is an error.
C4_JmpIfZero ==
    [][ (DoJmpIfZero /\ operand(vm).ok /\ vm.stack # <<>>
                     /\ vm.stack[Len(vm.stack)] # <<>>) =>
          LET o == operand(vm)
              frame == vm.stack[Len(vm.stack)]
              top == frame[Len(frame)]
          IN  /\ vm'.stack = [vm.stack EXCEPT ![Len(vm.stack)] = SubSeq(frame, 1, Len(frame) - 1)]
              /\ top.tag # "Int" => result' = InvalidStackValue
              /\ (top = IntValue(0) /\ o.bytes \in DOMAIN vm.label_jump_map) =>
                    vm'.ip = vm.label_jump_map[o.bytes]
              /\ (top.tag = "Int" /\ top.n # 0) => vm'.ip = o.end + o.length ]_vars

\* C5, as the specification states it: Printf substitutes exactly one placeholder, the
\* first occurrence only; a template with no placeholder or with more than one fails
\* with InvalidTemplate(template), and then nothing is sent on print_out.
C5_ExactlyOnePlaceholder ==
    [][ (DoPrintf /\ vm.stack # <<>> /\ Len(vm.stack[Len(vm.stack)]) >= 2
                  /\ vm.stack[Len(vm.stack)][Len(vm.stack[Len(vm.stack)]) - 1].tag = "String") =>
          LET frame == vm.stack[Len(vm.stack)]
              value == frame[Len(frame)]
              template == frame[Len(frame) - 1].s
              count(s, pat) == Cardinality({i \in 1..(Len(s) - 1) : SubSeq(s, i, i + 1) = pat})
              placeholders == count(template, s_pct_s) + count(template, s_pct_d)
              after == vm'.stack[Len(vm.stack)]
          IN  /\ placeholders # 1 =>
                    result' = InvalidTemplate(template) /\ print_chan' = print_chan
              /\ (placeholders = 1 /\ result' = Running) =>
                    Len(after[Len(after)].s) = Len(template) - 2 + Len(value_to_string(value)) ]_vars

\* C5, as the code has it: Printf pops the value, then the template, and replaces every
\* occurrence of the placeholder it formats (%s by a String; %d by an Int when the
\* template has no %s), pushing the result; a template with several placeholders is
\* accepted; exactly the templates with neither %s nor %d fail with
\* InvalidTemplate(template), and then nothing is sent on print_out.
C5_EveryOccurrence ==
    [][ (DoPrintf /\ vm.stack # <<>> /\ Len(vm.stack[Len(vm.stack)]) >= 2
                  /\ vm.stack[Len(vm.stack)][Len(vm.stack[Len(vm.stack)]) - 1].tag = "String") =>
          LET frame == vm.stack[Len(vm.stack)]
              value == frame[Len(frame)]
              template == frame[Len(frame) - 1].s
              count(s, pat) == Cardinality({i \in 1..(Len(s) - 1) : SubSeq(s, i, i + 1) = pat})
              ns == count(template, s_pct_s)
              nd == count(template, s_pct_d)
              after == vm'.stack[Len(vm.stack)]
              pushed == after[Len(after)]
              text == value_to_string(value)
              formats(pat, n) ==
                  /\ result' \in {Running, MaxExecutionCounterReached}
                  /\ after = Append(SubSeq(frame, 1, Len(frame) - 2), pushed)
                  /\ pushed.tag = "String"
                  /\ Len(pushed.s) = Len(template) + n * (Len(text) - 2)
                  /\ count(text, pat) = 0 => count(pushed.s, pat) = 0
          IN  /\ (ns = 0 /\ nd = 0) <=> result' = InvalidTemplate(template)
              /\ result' = InvalidTemplate(template) =>
                    print_chan' = print_chan /\ logged' = logged
              /\ (ns > 0 /\ value.tag = "String") => formats(s_pct_s, ns)
              /\ (ns = 0 /\ nd > 0 /\ value.tag = "Int") => formats(s_pct_d, nd) ]_vars

\* C5's case: "%s=%s" formatted with "world" is "world=world".
C5_Witness ==
    /\ input.instructions = test_printf(s_s_and_s, StringValue(s_world))
    /\ execution_counter = 3
    /\ vm.stack = << << StringValue(s_world \o <<61>> \o s_world) >> >>

\* C6, as the specification states it: a Printf whose placeholder does not match the
\* type of the popped value (%s with an Int, %d with a String) fails with
\* InvalidTemplate, and a template with both %s and %d is formatted with the placeholder
\* that matches the value's type.
C6_MismatchIsInvalidTemplate ==
    [][ (DoPrintf /\ vm.stack # <<>> /\ Len(vm.stack[Len(vm.stack)]) >= 2
                  /\ vm.stack[Len(vm.stack)][Len(vm.stack[Len(vm.stack)]) - 1].tag = "String") =>
          LET frame == vm.stack[Len(vm.stack)]
              value == frame[Len(frame)]
              template == frame[Len(frame) - 1].s
              hs == contains(template, s_pct_s)
              hd == contains(template, s_pct_d)
              after == vm'.stack[Len(vm.stack)]
          IN  /\ (hs /\ ~hd /\ value.tag = "Int") => result' = InvalidTemplate(template)
              /\ (hd /\ ~hs /\ value.tag = "String") => result' = InvalidTemplate(template)
              /\ (hs /\ hd) =>
                    /\ result' \in {Running, MaxExecutionCounterReached}
                    /\ Len(after) = Len(frame) - 1
                    /\ contains(after[Len(after)].s,
                                IF value.tag = "String" THEN s_pct_d ELSE s_pct_s) ]_vars

\* C6, as the code has it: a Printf whose template has %s fails with InvalidStackValue
\* when the value is an Int, and so does one whose template has %d and no %s when the
\* value is a String; a template with both %s and %d is a %s template: a String
\* replaces %s and leaves %d, an Int fails with InvalidStackValue.  In each failure
\* both values have been popped and nothing is sent.
C6_MismatchIsInvalidStackValue ==
    [][ (DoPrintf /\ vm.stack # <<>> /\ Len(vm.stack[Len(vm.stack)]) >= 2
                  /\ vm.stack[Len(vm.stack)][Len(vm.stack[Len(vm.stack)]) - 1].tag = "String") =>
          LET frame == vm.stack[Len(vm.stack)]
              value == frame[Len(frame)]
              template == frame[Len(frame) - 1].s
              hs == contains(template, s_pct_s)
              hd == contains(template, s_pct_d)
              after == vm'.stack[Len(vm.stack)]
              fails == /\ result' = InvalidStackValue
                       /\ after = SubSeq(frame, 1, Len(frame) - 2)
                       /\ print_chan' = print_chan
          IN  /\ (hs /\ value.tag = "Int") => fails
              /\ (hd /\ ~hs /\ value.tag = "String") => fails
              /\ (hs /\ hd /\ value.tag = "String") =>
                    /\ result' \in {Running, MaxExecutionCounterReached}
                    /\ Len(after) = Len(frame) - 1
                    /\ contains(after[Len(after)].s, s_pct_d)
                    /\ ~contains(value.s, s_pct_s) => ~contains(after[Len(after)].s, s_pct_s) ]_vars

\* C6's case: "%s%d" with the Int 12345 has failed with InvalidStackValue.
C6_Witness ==
    /\ input.instructions = test_printf(s_s_and_d, IntValue(12345))
    /\ execution_counter = 2
    /\ result = InvalidStackValue
    /\ vm.stack = << <<>> >>

\* C7, as the specification states it: executing a Jump(L), JmpIfZero(L) or Call(L)
\* whose label L is not a key of label_to_offset always ends run() with MissingLabel(L),
\* whatever Int the JmpIfZero pops.
C7_MissingLabelAlways ==
    [][ ((DoJump \/ DoJmpIfZero \/ DoCall)
          /\ operand(vm).ok /\ is_utf8(operand(vm).bytes)
          /\ operand(vm).bytes \notin DOMAIN vm.label_jump_map
          /\ (Fetch = JMP_IF_ZERO_CODE =>
                /\ vm.stack # <<>>
                /\ vm.stack[Len(vm.stack)] # <<>>
                /\ vm.stack[Len(vm.stack)][Len(vm.stack[Len(vm.stack)])].tag = "Int")) =>
          result' = MissingLabel(operand(vm).bytes) ]_vars

\* C7, as the code has it: executing a Jump(L) or a Call(L) whose label L is not a key of
\* label_to_offset always ends run() with MissingLabel(L); a JmpIfZero(L) does so when
\* it pops Int(0), and when it pops a non-zero Int it does not look L up: run() goes
\* on without MissingLabel.
C7_MissingLabelWhenLookedUp ==
    [][ ((DoJump \/ DoJmpIfZero \/ DoCall)
          /\ operand(vm).ok /\ is_utf8(operand(vm).bytes)
          /\ operand(vm).bytes \notin DOMAIN vm.label_jump_map) =>
          LET L == operand(vm).bytes
              frame == vm.stack[Len(vm.stack)]
              popsInt == /\ vm.stack # <<>>
                         /\ frame # <<>>
                         /\ frame[Len(frame)].tag = "Int"
          IN  /\ Fetch \in {JUMP_CODE, CALL_CODE} => result' = MissingLabel(L)
              /\ (Fetch = JMP_IF_ZERO_CODE /\ popsInt /\ frame[Len(frame)].n = 0) =>
                    result' = MissingLabel(L)
              /\ (Fetch = JMP_IF_ZERO_CODE /\ popsInt /\ frame[Len(frame)].n # 0) =>
                    /\ result' \in {Running, MaxExecutionCounterReached}
                    /\ execution_counter' = execution_counter + 1 ]_vars

\* C7's case: Push(Int(1)), JmpIfZero("b") with no Label("b") has been executed and
\* run() goes on.
C7_Witness ==
    /\ input.instructions =
          << Push(IntValue(1)), JmpIfZero(s_b), Push(StringValue(s_x)), Stdout >>
    /\ input.max = None
    /\ execution_counter = 2
    /\ result = Running

\* C8, as the specification states it: for every service for which
\* CodeGenerator::process succeeds, every Jump, JmpIfZero and Call target of the
\* generated instructions is a key of the label_to_offset map built from them.
C8_TargetsAreLabels ==
    (input.ast.some /\ process(input.ast.v).ok) =>
        LET generated == process(input.ast.v).instructions
        IN  \A i \in 1..Len(generated) :
                generated[i].op \in {"Jump", "JmpIfZero", "Call"} =>
                    generated[i].a \in DOMAIN generate_bytecode(generated).label_jump_map

C10_FiveMessages ==
    (input.ast = Some(service_with_local_call) /\ input.max = Some(30) /\ result # Running) =>
        /\ result = MaxExecutionCounterReached
        /\ print_out = [i \in 1..5 |-> PrintStdout(s_Main_page)]

\* The model never meets a number it cannot hold.
\* C11: a worker running the code generated for a service that declares methods but no
\* loop, and that receives no inbound remote call, never sends on the print channel;
\* with max_execution_counter = 10 its run() returns MaxExecutionCounterReached.
C11_NoLoopNeverPrints ==
    (input.ast.some /\ input.ast.v.loops = <<>> /\ input.ast.v.methods # <<>>
       /\ input.inbound = <<>>) =>
        /\ print_out = <<>>
        /\ (input.max = Some(10) /\ result # Running) =>
              result = MaxExecutionCounterReached /\ execution_counter = 11

\* C11's case: the service of test_vm_run under max_execution_counter = 10 has returned
\* MaxExecutionCounterReached from its CheckInterrupt, nothing printed.
C11_Witness ==
    /\ input.ast = Some(service)
    /\ input.inbound = <<>>
    /\ input.max = Some(10)
    /\ result = MaxExecutionCounterReached
    /\ ByteAt(vm.code, vm.ip) = CHECK_INTERRUPT_CODE
    /\ print_out = <<>>

\* What one invocation of a print or stderr statement with a template and a list of
\* arguments is to send, in order.
C12_Messages(statement) ==
    [ i \in 1..Len(statement.args.v) |->
        [ channel |-> statement.kind,
          text |-> replace(statement.message, s_pct_s, statement.args.v[i]) ] ]

\* C12: a print or stderr statement with message T and arguments [a1..an] sends n
\* messages per invocation, in list order, the i-th being T with its placeholder replaced
\* by ai and tagged Stdout or Stderr as the statement is; they reach print_out in the
\* order of execution.  With arguments ["12345", "67890"] and max_execution_counter = 15
\* print_out holds exactly the two messages, in that order.
C12_OneMessagePerArgument ==
    (/\ input.ast.some
     /\ Len(input.ast.v.methods) = 1
     /\ LET statement == Head(Head(input.ast.v.methods).statements)
        IN  /\ statement.kind \in {"Stdout", "Stderr"}
            /\ statement.args.some
            /\ contains(statement.message, s_pct_s)) =>
        LET messages == C12_Messages(Head(Head(input.ast.v.methods).statements))
            n == Len(messages)
        IN  /\ \A i \in 1..Len(print_out) : print_out[i] = messages[((i - 1) % n) + 1]
            /\ (input.ast.v.loops # <<>> /\ input.max = Some(15) /\ result # Running) =>
                  result = MaxExecutionCounterReached /\ print_out = messages

\* C12's case: the service of test_vm_with_stderr_template_and_var under
\* max_execution_counter = 15 has ended with its two messages sent, "12345" first.
C12_Witness ==
    /\ input.ast = Some(service_with_stderr_template)
    /\ input.max = Some(15)
    /\ result = MaxExecutionCounterReached
    /\ print_out = << PrintStderr(SubSeq(s_Main_page_s, 1, 10) \o s_12345),
                      PrintStderr(SubSeq(s_Main_page_s, 1, 10) \o s_67890) >>

\* The instructions generated for the body of the only method of a service: what is
\* between Label("start_<method>") and Ret.
C13_Body(sc) ==
    LET at(l) == CHOOSE i \in 1..Len(sc.instructions) : sc.instructions[i] = l
        from == at(Label(s_start_ \o Head(sc.ast.v.methods).name))
        to == at(Label(s_end_ \o Head(sc.ast.v.methods).name))
    IN  SubSeq(sc.instructions, from + 1, to - 2)

\* C13: a print or stderr statement with an empty argument list (`with []`) lowers to no
\* instruction at all and a worker executing it sends nothing for it, while the other
\* statements of the method (a Sleep) are still emitted and executed; a statement with
\* absent arguments lowers to Push(message); Stdout|Stderr.
C13_EmptyArgumentsLowerToNothing ==
    (input.ast.some /\ Len(input.ast.v.methods) = 1) =>
        LET statements == Head(input.ast.v.methods).statements
            first == Head(statements)
            out == IF first.kind = "Stdout" THEN Stdout ELSE Stderr
        IN  (first.kind \in {"Stdout", "Stderr"}) =>
              /\ (first.args = Some(<<>>) /\ statements = <<first, StmtSleep(1)>>) =>
                    /\ C13_Body(input) = <<Sleep(1)>>
                    /\ print_out = <<>>
              /\ (first.args = NoneList /\ Len(statements) = 1) =>
                    C13_Body(input) = << Push(StringValue(first.message)), out >>

\* C13's case: in the service whose method is print "Main page" with []; sleep 1ms the
\* Sleep has been executed, the worker is at the Ret after it, and nothing was sent.
C13_Witness ==
    /\ input.ast = Some(service_with_empty_args)
    /\ result = Running
    /\ execution_counter > 0
    /\ ByteAt(vm.code, vm.ip) = RET_CODE
    /\ print_out = <<>>

\* C14: the code generated for frontend { method main_page { call products.get_products }
\* loop { call main_page } }, run with a remote_out channel and max_execution_counter = 10,
\* puts exactly one ServiceCall on remote_out before run() returns
\* MaxExecutionCounterReached; its target service is the first string pushed
\* ("products"), its target method the second ("get_products").
C14_OneServiceCall ==
    (/\ input.ast.some
     /\ input.ast.v.loops = <<loop_main_page>>
     /\ Len(input.ast.v.methods) = 1
     /\ Head(input.ast.v.methods).name = s_main_page
     /\ Len(Head(input.ast.v.methods).statements) = 1
     /\ Head(Head(input.ast.v.methods).statements).kind = "Call"
     /\ input.tx /\ ~input.tracer /\ input.max = Some(10)) =>
        LET call == Head(Head(input.ast.v.methods).statements)
            message == ServiceMessage(call.service.v, call.method, "current")
        IN  /\ main_chan \in { <<>>, <<message>> }
            /\ result # Running =>
                  result = MaxExecutionCounterReached /\ main_chan = <<message>>

\* C14's case: the worker of test_vm_with_remote_call has returned
\* MaxExecutionCounterReached with the one call to products.get_products sent.
C14_Witness ==
    /\ input.ast = Some(service_calls_products)
    /\ input.tx /\ ~input.rx /\ ~input.tracer /\ input.max = Some(10)
    /\ result = MaxExecutionCounterReached
    /\ main_chan = << ServiceMessage(s_products, s_get_products, "current") >>

\* ServiceCoordinator::run can take a step.
C15_CoordinatorCanStep == ENABLED (CoordinatorCount \/ CoordinatorPoll \/ CoordinatorSend)

\* C15, as the specification states it: the coordinator never blocks indefinitely on a
\* full downstream channel: when it has a method name for a target whose channel is full
\* and a later ServiceCall addressed to another service waits in the main channel, it
\* can go on to receive and route that call without the target draining its channel.
C15_RoutesPastAFullChannel ==
    (/\ coordinator.sending.some
     /\ Len(remote_call_rx[coordinator.sending.v.to]) = remote_call_channel_size
     /\ main_rx # <<>>
     /\ Head(main_rx).to # coordinator.sending.v.to
     /\ Head(main_rx).to \in coordinator.services) => C15_CoordinatorCanStep

\* The coordinator receives the head of its main channel in this step.
C16_Receives == main_rx # <<>> /\ main_rx' = Tail(main_rx)

\* The method name of msg is put on the channel of its target, and nothing on any other.
C16_Forwards(msg) ==
    remote_call_rx' = [remote_call_rx EXCEPT ![msg.to] = Append(@, msg.function)]

\* C16, as the specification states it: for every ServiceCall the coordinator receives,
\* if its target is registered the method name is forwarded exactly once on that target's
\* method channel and on no other, at once or when the channel has room; if it is not
\* registered nothing is forwarded on any channel, the message is dropped, and the
\* coordinator keeps running and routes the following messages.
C16_ForwardedWheneverRegistered ==
    /\ [][ C16_Receives =>
             LET msg == Head(main_rx) IN
             IF msg.to \in coordinator.services
             THEN \/ C16_Forwards(msg) /\ ~coordinator'.sending.some
                  \/ /\ Len(remote_call_rx[msg.to]) = remote_call_channel_size
                     /\ remote_call_rx' = remote_call_rx
                     /\ coordinator'.sending = Some(msg)
             ELSE /\ remote_call_rx' = remote_call_rx
                  /\ ~coordinator'.sending.some
                  /\ coordinator'.remote_call_counter = 0 ]_vars
    /\ [][ (coordinator.sending.some /\ coordinator'.sending # coordinator.sending) =>
             C16_Forwards(coordinator.sending.v) /\ ~coordinator'.sending.some ]_vars

\* C16, amended: a registered target whose worker has returned has a closed channel; the
\* send to it fails and the method name is dropped like that of an unregistered target.
\* A method name is put on a channel by the coordinator only, once for a message.
C16_ForwardedUnlessClosed ==
    /\ [][ C16_Receives =>
             LET msg == Head(main_rx) IN
             IF msg.to \in coordinator.services /\ ~closed(msg.to)
             THEN \/ C16_Forwards(msg) /\ ~coordinator'.sending.some
                  \/ /\ Len(remote_call_rx[msg.to]) = remote_call_channel_size
                     /\ remote_call_rx' = remote_call_rx
                     /\ coordinator'.sending = Some(msg)
             ELSE /\ remote_call_rx' = remote_call_rx
                  /\ ~coordinator'.sending.some
                  /\ coordinator'.remote_call_counter = 0 ]_vars
    /\ [][ (coordinator.sending.some /\ coordinator'.sending # coordinator.sending) =>
             /\ ~coordinator'.sending.some
             /\ main_rx' = main_rx
             /\ IF closed(coordinator.sending.v.to)
                THEN remote_call_rx' = remote_call_rx
                ELSE C16_Forwards(coordinator.sending.v) ]_vars
    /\ [][ (\E w \in DOMAIN remote_call_rx : Len(remote_call_rx'[w]) > Len(remote_call_rx[w]))
             => \/ C16_Receives
                \/ coordinator.sending.some /\ ~coordinator'.sending.some ]_vars
    /\ [](~coordinator.sending.some => ENABLED (CoordinatorCount \/ CoordinatorPoll))

\* C16's case: the call to orders, which is not registered, was dropped, the call to audit
\* after it found the channel of audit closed, and the call to products that followed
\* them has been forwarded to products.
C16_Witness ==
    /\ program = << frontend_calls_unknown, audit, products_printing >>
    /\ closed(s_audit)
    /\ remote_call_rx[s_audit] = <<>>
    /\ history.arrived[1] = 3
    /\ history.forwarded[1] = 3
    /\ remote_call_rx[s_products] = <<s_get_products>>

\* The place, among the calls of its caller, of the call that comes after the place-th:
\* the worker makes its calls in the order of its method, again and again.
C17_After(msg, last) == (last % Len(calls(program[caller(msg)]))) + 1

\* C17: the remote calls of one worker reach the coordinator in the order the worker
\* sent them, and when they address the same target their method names are put on that
\* target's remote_in in that order, whatever the other workers do in between.
C17_OrderPerSender ==
    /\ [][ C16_Receives =>
             LET msg == Head(main_rx)
             IN  place(msg) = C17_After(msg, history.arrived[caller(msg)]) ]_vars
    /\ [][ \A t \in DOMAIN remote_call_rx :
             Len(remote_call_rx'[t]) > Len(remote_call_rx[t]) =>
               LET msg == ServiceMessage(t, remote_call_rx'[t][Len(remote_call_rx'[t])],
                                         "current")
                   sent == calls(program[caller(msg)])
               IN  (\A k \in 1..Len(sent) : sent[k].to = t) =>
                     place(msg) = C17_After(msg, history.forwarded[caller(msg)]) ]_vars

\* C17's case: frontend has sent get_products and then get_prices to products, checkout
\* its get_stock in between, and get_prices is the last of frontend's on the channel of
\* products, after get_products.
C17_Witness ==
    /\ program = << frontend_two_calls, checkout, products_server >>
    /\ history.arrived = <<2, 1, 0>>
    /\ history.forwarded = <<2, 1, 0>>
    /\ remote_call_rx[s_products] = <<s_get_prices>>

\* C18: a method name is taken from remote_in only while the worker executes a
\* CheckInterrupt; a worker running generated code that is executing a method body
\* reaches the Ret of that method before any further inbound invocation starts: a name
\* is taken only when no method is in progress, and the method it starts returns to the
\* CheckInterrupt that took it.
C18_NoInterleaving ==
    /\ [][ remote_in' # remote_in => DoCheckInterrupt /\ remote_in' = Tail(remote_in) ]_vars
    /\ [][ (input.ast.some /\ remote_in' # remote_in) =>
             /\ vm.return_addresses = <<>>
             /\ result' \in {Running, MaxExecutionCounterReached} =>
                   /\ vm'.return_addresses = <<vm.ip>>
                   /\ vm'.ip = vm.label_jump_map[s_start_ \o Head(remote_in)] ]_vars

\* C18's case: two names waited on remote_in; the first method has returned and the
\* second invocation has been taken and is in progress.
C18_Witness ==
    /\ input.ast = Some(service)
    /\ input.inbound = <<s_main_page, s_main_page>>
    /\ remote_in = <<>>
    /\ result = Running
    /\ Len(vm.return_addresses) = 1
    /\ print_out = << PrintStdout(s_Main_page) >>

\* The instructions generated for the outer main loop of a service: what is between
\* Label("start_<service>_main") and Label("end_<service>_main").
C19_MainLoop(sc) ==
    LET at(l) == CHOOSE i \in 1..Len(sc.instructions) : sc.instructions[i] = l
        from == at(Label(s_start_ \o sc.ast.v.name \o s__main))
        to == at(Label(s_end_ \o sc.ast.v.name \o s__main))
    IN  SubSeq(sc.instructions, from + 1, to - 1)

\* C19, as the specification states it: the code generated for every service has a
\* CheckInterrupt in its outer main loop, both when the service declares a loop block and
\* when it declares none, so that a method name waiting on remote_in is eventually
\* invoked.
C19_CheckInterruptInEveryMainLoop ==
    input.ast.some =>
        \E i \in 1..Len(C19_MainLoop(input)) : C19_MainLoop(input)[i] = CheckInterrupt

\* C20, as the specification states it: a worker with remote_in polls it on every
\* remote_call_limit-th execution of CheckInterrupt and on no other execution, and
\* remote_call_counter is reset to 0 at each poll whether or not a message was received.
\* vm.remote_call_counter + 1 is the number of the execution since the last poll.
C20_PollOnEveryLimitth ==
    [][ (DoCheckInterrupt /\ vm.remote_call_rx) =>
          IF vm.remote_call_counter + 1 = vm.remote_call_limit
          THEN /\ vm'.remote_call_counter = 0
               /\ remote_in' = IF remote_in # <<>> THEN Tail(remote_in) ELSE remote_in
          ELSE /\ vm'.remote_call_counter = vm.remote_call_counter + 1
               /\ remote_in' = remote_in ]_vars

\* C20, amended: the poll is on every (remote_call_limit + 1)-th execution of
\* CheckInterrupt and on no other; the poll takes the head of remote_in when there is
\* one; the counter is reset to 0 at the poll, except when the name received has no
\* label, where run() returns MissingLabel with the counter left at limit + 1.  No other
\* instruction, and no worker without remote_in, takes from remote_in or counts.
C20_PollAfterLimit ==
    /\ [][ (DoCheckInterrupt /\ vm.remote_call_rx) =>
             IF vm.remote_call_counter + 1 = vm.remote_call_limit + 1
             THEN IF remote_in = <<>>
                  THEN vm'.remote_call_counter = 0 /\ remote_in' = remote_in
                  ELSE /\ remote_in' = Tail(remote_in)
                       /\ IF s_start_ \o Head(remote_in) \in DOMAIN vm.label_jump_map
                          THEN vm'.remote_call_counter = 0
                          ELSE /\ result' = MissingLabel(s_start_ \o Head(remote_in))
                               /\ vm'.remote_call_counter = vm.remote_call_limit + 1
             ELSE /\ vm'.remote_call_counter = vm.remote_call_counter + 1
                  /\ vm.remote_call_counter + 1 <= vm.remote_call_limit
                  /\ remote_in' = remote_in ]_vars
    /\ [][ ~(DoCheckInterrupt /\ vm.remote_call_rx) =>
             /\ remote_in' = remote_in
             /\ vm'.remote_call_counter = vm.remote_call_counter ]_vars

\* C20's case: with remote_call_limit = 2 the third CheckInterrupt (Label, Jump and two
\* CheckInterrupt before it) has polled and taken the waiting name, the counter is 0.
C20_Witness ==
    /\ input.ast = Some(service)
    /\ input.rx /\ input.limit = 2 /\ input.inbound = <<s_main_page>>
    /\ execution_counter = 5
    /\ remote_in = <<>>
    /\ vm.remote_call_counter = 0
    /\ vm.return_addresses # <<>>

\* The frame the instruction at ip works on.
current_frame == IF vm.stack = <<>> THEN <<>> ELSE vm.stack[Len(vm.stack)]

\* C22: a RemoteCall executed by a worker that has no outbound channel ends run() with
\* RemoteCallError("Remote call tx not set"), sends no ServiceMessage and leaves the
\* operands on the current frame: the VM is as it was before the instruction.
C22_NoChannelNoCall ==
    [][(DoRemoteCall /\ ~vm.remote_call_tx) =>
          /\ result' = RemoteCallError(s_tx_not_set)
          /\ main_chan' = main_chan
          /\ vm' = vm]_vars

\* run() has ended with that error at a RemoteCall whose two operands are on the frame.
C22_Witness ==
    /\ result = RemoteCallError(s_tx_not_set)
    /\ ~vm.remote_call_tx
    /\ ByteAt(vm.code, vm.ip) = REMOTE_CALL_CODE
    /\ Len(current_frame) >= 2
    /\ main_chan = <<>>

\* A RemoteCall that gets as far as its send: an outbound channel, two operands, a label
\* before it and, when tracing, a trace context.
C23_ReachesSend ==
    /\ vm.remote_call_tx
    /\ Len(current_frame) >= 2
    /\ find_current_function_name(vm).some
    /\ vm.tracer => vm.otel_context

\* C23: when the receiver of the print channel is gone, a Stdout with a value to send, or a
\* Stderr with a String to send, ends run() with PrintError; when the receiver of the
\* outbound remote-call channel is gone, a RemoteCall that gets to its send ends run() with
\* RemoteCallError; once run() has returned no instruction is executed.
C23_ClosedChannelEndsRun ==
    [][ /\ (DoStdout /\ input.print_closed /\ current_frame # <<>>) => result' = PrintError
        /\ (DoStderr /\ input.print_closed /\ current_frame # <<>>
              /\ current_frame[Len(current_frame)].tag = "String") => result' = PrintError
        /\ (DoRemoteCall /\ input.remote_closed /\ C23_ReachesSend) =>
              (result' = RemoteCallError(s_channel_closed) /\ main_chan' = main_chan)
        /\ (result # Running) =>
              UNCHANGED <<vm, execution_counter, result, print_out, main_chan>> ]_vars

\* run() has ended with PrintError at a Stdout that is followed by another instruction.
C23_Witness ==
    /\ result = PrintError
    /\ input.print_closed
    /\ ByteAt(vm.code, vm.ip) = STDOUT_CODE
    /\ vm.ip + 1 < Len(vm.code)
    /\ print_out = <<>>

\* run() has ended with PrintError at a Stderr that is followed by other instructions.
C23_WitnessStderr ==
    /\ result = PrintError
    /\ ByteAt(vm.code, vm.ip) = STDERR_CODE
    /\ vm.ip + 1 < Len(vm.code)
    /\ print_out = <<>>

\* run() has ended at a RemoteCall whose send failed.
C23_WitnessRemote ==
    /\ result = RemoteCallError(s_channel_closed)
    /\ input.remote_closed
    /\ ByteAt(vm.code, vm.ip) = REMOTE_CALL_CODE
    /\ main_chan = <<>>

\* C24: the trace context of a worker is absent or present, absent after construction.
\* With a tracer StartContext makes it present, also when one is present already (without
\* a tracer it leaves it as it is); EndContext makes a present one absent and run() goes
\* on; EndContext with none ends run() with MissingSpan and leaves it absent; no other
\* instruction changes it.  There is one context field: at most one context per worker.
C24_ContextStateMachine ==
    /\ ~vm.otel_context
    /\ [][ /\ vm'.otel_context \in BOOLEAN
           /\ (DoStartContext /\ vm.tracer) =>
                 (vm'.otel_context /\ result' \in {Running, MaxExecutionCounterReached})
           /\ (DoStartContext /\ ~vm.tracer) => (vm'.otel_context = vm.otel_context)
           /\ (DoEndContext /\ vm.otel_context) =>
                 (~vm'.otel_context /\ vm'.ip = vm.ip + 1
                    /\ result' \in {Running, MaxExecutionCounterReached})
           /\ (DoEndContext /\ ~vm.otel_context) =>
                 (~vm'.otel_context /\ result' = MissingSpan /\ vm' = vm)
           /\ ~(DoStartContext \/ DoEndContext) => (vm'.otel_context = vm.otel_context)
        ]_vars

\* A traced worker has started a context twice, ended it once, and failed at the second
\* EndContext.
C24_Witness ==
    /\ input.instructions = << StartContext, StartContext, EndContext, EndContext >>
    /\ vm.tracer
    /\ result = MissingSpan
    /\ vm.ip = 3
    /\ ~vm.otel_context

\* The loop body is exactly one statement, a local Call.
C25_OneLocalCall(loop_def) ==
    /\ Len(loop_def.statements) = 1
    /\ loop_def.statements[1].kind = "Call"
    /\ ~loop_def.statements[1].service.some

\* C25: process succeeds for a service with a loop only when the loop body is exactly one
\* statement and that statement is a local Call: every worker that runs the code generated
\* from a service with a loop runs a loop of one local Call, and every other loop body
\* (empty, several statements, a print, a sleep, a remote call) makes process fail.
C25_LoopIsOneLocalCall ==
    /\ (input.ast.some /\ input.ast.v.loops # <<>>) => C25_OneLocalCall(Head(input.ast.v.loops))
    /\ \A s \in Services :
          (s.loops # <<>> /\ ~C25_OneLocalCall(Head(s.loops))) => ~process(s).ok

\* A method of s has a local Call among its statements.
C26_LocalCallInMethod(s) ==
    \E i \in 1..Len(s.methods) : \E j \in 1..Len(s.methods[i].statements) :
        LET statement == s.methods[i].statements[j]
        IN  statement.kind = "Call" /\ ~statement.service.some

\* In code, the body of method, whose statements are all remote calls, stands after
\* Label(start_<name>) as one Push(service); Push(method); RemoteCall for each statement,
\* followed by Ret.
C26_RemoteCallsLowered(code_, method) ==
    \E p \in 1..Len(code_) :
        /\ code_[p] = Label(s_start_ \o method.name)
        /\ p + 3 * Len(method.statements) + 1 <= Len(code_)
        /\ \A j \in 1..Len(method.statements) :
              /\ code_[p + 3 * (j - 1) + 1] = Push(StringValue(method.statements[j].service.v))
              /\ code_[p + 3 * (j - 1) + 2] = Push(StringValue(method.statements[j].method))
              /\ code_[p + 3 * (j - 1) + 3] = RemoteCall
        /\ code_[p + 3 * Len(method.statements) + 1] = Ret

\* Of every service of the model: a local Call in a method makes process fail with no
\* instructions, and the remote calls of a method are lowered to the three instructions.
C26_Lowering ==
    /\ \A s \in Services : C26_LocalCallInMethod(s) => process(s) = GenErr
    /\ \A s \in Services : process(s).ok =>
          \A i \in 1..Len(s.methods) :
              (\A j \in 1..Len(s.methods[i].statements) :
                    /\ s.methods[i].statements[j].kind = "Call"
                    /\ s.methods[i].statements[j].service.some)
                => C26_RemoteCallsLowered(process(s).instructions, s.methods[i])

\* C26: a local Call in a method body makes process fail and produce no instructions, so
\* no worker runs code generated from such a service; a remote Call in a method is lowered
\* to exactly Push(String(service)); Push(String(method)); RemoteCall.
C26_CallsInMethods ==
    /\ C26_Lowering
    /\ input.ast.some => ~C26_LocalCallInMethod(input.ast.v)

\* A worker running the code generated from a method with a remote call has executed the
\* RemoteCall: the message is in the outbound channel.
C26_Witness ==
    /\ input.ast.some
    /\ input.ast.v = service_calls_products
    /\ main_chan = << ServiceMessage(s_products, s_get_products, "current") >>

\* S has a loop calling a method: the loop's first statement is a local Call.
C27_LoopCalls(s) ==
    /\ s.loops # <<>>
    /\ Head(s.loops).statements # <<>>
    /\ Head(Head(s.loops).statements).kind = "Call"
    /\ ~Head(Head(s.loops).statements).service.some

\* The template of the generated stream, for a service whose methods can be lowered.
C27_Template(s) ==
    << Label(s_start_ \o s.name), Jump(s_start_ \o s.name \o s__main) >>
    \o Flatten([i \in 1..Len(s.methods) |->
                  << Label(s_start_ \o s.methods[i].name) >>
                  \o Flatten([j \in 1..Len(s.methods[i].statements) |->
                                process_statement(s.methods[i].statements[j]).instructions])
                  \o << Ret, Label(s_end_ \o s.methods[i].name) >>])
    \o << Label(s_start_ \o s.name \o s__main) >>
    \o (IF C27_LoopCalls(s)
        THEN << Label(s_start_loop),
                Call(s_start_ \o Head(Head(s.loops).statements).method),
                Jump(s_start_loop), Label(s_end_loop) >>
        ELSE << CheckInterrupt, Jump(s_start_ \o s.name \o s__main) >>)
    \o << Label(s_end_ \o s.name \o s__main), Label(s_end_ \o s.name) >>

\* C27: the instruction stream generated for a service S has the template shape:
\* Label(start_S); Jump(start_S_main); for each method in declaration order
\* Label(start_M), its lowered statements, Ret, Label(end_M); Label(start_S_main); then
\* Label(start_loop); Call(start_M0); Jump(start_loop); Label(end_loop) when S has a loop
\* calling M0, and CheckInterrupt; Jump(start_S_main) when it has none; then
\* Label(end_S_main); Label(end_S).
C27_TemplateShape ==
    input.ast.some => input.instructions = C27_Template(input.ast.v)

\* The same of every service but the one with an empty loop.
C27_TemplateShapeButEmptyLoop ==
    (input.ast.some /\ input.ast.v # service_with_empty_loop)
        => input.instructions = C27_Template(input.ast.v)

\* The number a string of decimal digits denotes.
RECURSIVE C28_Parse(_)
C28_Parse(text) ==
    IF text = <<>> THEN 0
    ELSE 10 * C28_Parse(SubSeq(text, 1, Len(text) - 1)) + (text[Len(text)] - 48)

\* text is v as Stdout prints it: the string itself, or the decimal digits of the Int
\* without a leading zero.
C28_Text(v, text) ==
    IF v.tag = "String" THEN text = v.s
    ELSE v.n >= 0 =>
           /\ text # <<>>
           /\ \A i \in 1..Len(text) : text[i] \in 48..57
           /\ (Len(text) > 1) => (text[1] # 48)
           /\ C28_Parse(text) = v.n

C28_Top == current_frame[Len(current_frame)]
C28_Popped == vm'.stack = [vm.stack EXCEPT ![Len(vm.stack)] = SubSeq(@, 1, Len(@) - 1)]

\* C28: with a receiver on the print channel, Stdout pops the top of the current frame and
\* sends Stdout(text), text being the String or the decimal digits of the Int; Stderr pops
\* the top and sends Stderr(text) for a String, and ends run() with InvalidStackValue for
\* an Int, sending nothing; either instruction on an empty current frame ends run() with
\* StackUnderflow and sends nothing.
C28_StdoutStderrAsymmetry ==
    [][ /\ (DoStdout /\ current_frame # <<>> /\ ~input.print_closed) =>
              /\ C28_Popped
              /\ Len(print_out') = Len(print_out) + 1
              /\ SubSeq(print_out', 1, Len(print_out)) = print_out
              /\ print_out'[Len(print_out')].channel = "Stdout"
              /\ C28_Text(C28_Top, print_out'[Len(print_out')].text)
        /\ (DoStderr /\ current_frame # <<>> /\ ~input.print_closed
               /\ C28_Top.tag = "String") =>
              /\ C28_Popped
              /\ print_out' = Append(print_out, PrintStderr(C28_Top.s))
        /\ (DoStderr /\ current_frame # <<>> /\ C28_Top.tag = "Int") =>
              /\ result' = InvalidStackValue
              /\ print_out' = print_out
        /\ ((DoStdout \/ DoStderr) /\ vm.stack # <<>> /\ current_frame = <<>>) =>
              /\ result' = StackUnderflow
              /\ print_out' = print_out ]_vars

\* run() has ended with InvalidStackValue at a Stderr that found an Int, nothing sent.
C28_Witness ==
    /\ input.instructions = << Push(IntValue(12345)), Stderr, Push(StringValue(s_x)), Stdout >>
    /\ result = InvalidStackValue
    /\ print_out = <<>>

\* Stdout has sent the decimal digits of an Int.
C28_WitnessInt ==
    /\ input.instructions = test_push_int
    /\ print_out = << PrintStdout(s_12345) >>

\* Stderr on an empty frame has ended run() with StackUnderflow.
C28_WitnessEmpty ==
    /\ input.instructions = << Stderr, Push(StringValue(s_x)), Stdout >>
    /\ result = StackUnderflow
    /\ print_out = <<>>

\* C29: Call gives the callee a new empty frame on top of the caller's frames, which are
\* left as they were; the values the caller pushed are not visible to the callee: a
\* Stdout of the callee on its empty frame ends run() with StackUnderflow and sends
\* nothing, also when the caller's frame below holds values.
C29_CalleeStartsEmpty ==
    [][ /\ DoCall => (vm'.stack = Append(vm.stack, <<>>) \/ result' = Panic)
        /\ (DoStdout /\ Len(vm.stack) >= 2 /\ current_frame = <<>>
               /\ vm.stack[Len(vm.stack) - 1] # <<>>) =>
              /\ result' = StackUnderflow
              /\ print_out' = print_out
              /\ vm'.stack = vm.stack ]_vars

\* The callee's Stdout has failed on its empty frame while the caller's frame holds the
\* value pushed before the Call.
C29_Witness ==
    /\ input.instructions = test_vm_creates_new_stackframe_on_call
    /\ result = StackUnderflow
    /\ vm.stack = << <<StringValue(s_world)>>, <<>> >>
    /\ print_out = <<>>

\* The byte offset just past the i-th instruction of the list the VM was made from.
RECURSIVE C30_Offset(_)
C30_Offset(i) ==
    IF i = 0 THEN 0 ELSE C30_Offset(i - 1) + Len(to_bytes(input.instructions[i]))

C30_Labels == { i \in 1..Len(input.instructions) : input.instructions[i].op = "Label" }

\* C30: label_jump_map[L] is the byte offset just past the bytes of a Label(L)
\* instruction, and label_jump_map and label_index_map are inverse mappings of each
\* other: label_index_map[label_jump_map[L]] = L for every label L and
\* label_jump_map[label_index_map[o]] = o for every recorded offset o, also when a label
\* name occurs more than once in the list.
C30_InverseMaps ==
    /\ \A l \in DOMAIN vm.label_jump_map :
          /\ \E i \in C30_Labels :
                input.instructions[i].a = l /\ vm.label_jump_map[l] = C30_Offset(i)
          /\ vm.label_jump_map[l] \in DOMAIN vm.label_index_map
          /\ vm.label_index_map[vm.label_jump_map[l]] = l
    /\ \A o \in DOMAIN vm.label_index_map :
          /\ vm.label_index_map[o] \in DOMAIN vm.label_jump_map
          /\ vm.label_jump_map[vm.label_index_map[o]] = o

\* The same, of the lists in which no label name occurs twice.
C30_InverseMapsOfDistinctLabels ==
    (\A i, j \in C30_Labels : input.instructions[i].a = input.instructions[j].a => i = j)
        => C30_InverseMaps

\* With a repeated name, label_jump_map has the offset of the last Label of the name and
\* label_index_map has the offset of each of them.
C30_LastLabelWins ==
    /\ DOMAIN vm.label_jump_map = { input.instructions[i].a : i \in C30_Labels }
    /\ DOMAIN vm.label_index_map = { C30_Offset(i) : i \in C30_Labels }
    /\ \A i \in C30_Labels :
          /\ vm.label_index_map[C30_Offset(i)] = input.instructions[i].a
          /\ (vm.label_jump_map[input.instructions[i].a] = C30_Offset(i))
               <=> (\A j \in C30_Labels :
                       input.instructions[j].a = input.instructions[i].a => j <= i)

\* The coordinator has the thread and nothing to route.
C21_IdleCoordinator ==
    /\ running = Coordinator
    /\ ~coordinator.sending.some
    /\ main_rx = <<>>

\* The worker of w has the thread and is at the CheckInterrupt of its main loop with no
\* method name waiting for it.
C21_IdleWorker(w) ==
    /\ w \in DOMAIN workers
    /\ running = Worker(w)
    /\ workers[w].result = Running
    /\ workers[w].vm.ip < Len(workers[w].vm.code)
    /\ ByteAt(workers[w].vm.code, workers[w].vm.ip) = CHECK_INTERRUPT_CODE
    /\ remote_call_rx[w] = <<>>

\* C21: CheckInterrupt and the coordinator's polling loop yield to the scheduler also when
\* no message is available: on a runtime with one thread, while a worker idles in its
\* CheckInterrupt main loop or the coordinator idles, a print task with a message to log
\* is eventually polled.
C21_IdleTasksYield ==
    \A w \in ServiceNames :
        ( /\ w \in DOMAIN workers
          /\ print_rx[w] # <<>>
          /\ (C21_IdleCoordinator \/ \E v \in ServiceNames : C21_IdleWorker(v)) )
        ~> (running = Printer(w))

\* An idle coordinator with the thread keeps it, whatever else is ready.
C21_IdleCoordinatorKeepsThread ==
    [][C21_IdleCoordinator => C21_IdleCoordinator']_vars

\* The text of get_products' print for argument a.
C31_Fetching(a) == SubSeq(s_Fetching_s, 1, Len(s_Fetching_s) - 2) \o a

\* C31: a CheckInterrupt takes at most one method name m from remote_in, and the name it
\* takes starts the method at label start_m once, in a new empty frame, the offset of the
\* CheckInterrupt being the return address; the method's Ret brings the worker back to
\* that CheckInterrupt with the frames it had before.  For products' get_products with
\* limit 1 and a maximum of 15 instructions, run() ends having sent exactly the method's
\* two prints, in order.
C31_OneInvocationPerMessage ==
    /\ [][ DoCheckInterrupt =>
             /\ remote_in' = remote_in \/ (remote_in # <<>> /\ remote_in' = Tail(remote_in))
             /\ (remote_in' # remote_in
                   /\ s_start_ \o Head(remote_in) \in DOMAIN vm.label_jump_map) =>
                   /\ vm'.stack = Append(vm.stack, <<>>)
                   /\ vm'.return_addresses = Append(vm.return_addresses, vm.ip)
                   /\ vm'.ip = vm.label_jump_map[s_start_ \o Head(remote_in)]
             /\ (remote_in' = remote_in) =>
                   /\ vm'.stack = vm.stack
                   /\ vm'.return_addresses = vm.return_addresses ]_vars
    /\ [][ (DoRet /\ vm.return_addresses # <<>>
               /\ ByteAt(vm.code, vm.return_addresses[Len(vm.return_addresses)])
                     = CHECK_INTERRUPT_CODE) =>
             /\ vm'.ip = vm.return_addresses[Len(vm.return_addresses)]
             /\ Len(vm'.stack) = call_depths[Len(call_depths)]
             /\ vm'.return_addresses
                   = SubSeq(vm.return_addresses, 1, Len(vm.return_addresses) - 1) ]_vars
    /\ []( ( /\ input.ast = Some(service_products)
             /\ input.rx /\ input.limit = 1 /\ input.inbound = <<s_get_products>>
             /\ result # Running ) =>
             /\ result = MaxExecutionCounterReached
             /\ remote_in = <<>>
             /\ print_out = << PrintStdout(C31_Fetching(s_12345)),
                               PrintStdout(C31_Fetching(s_67890)) >> )

\* A worker has taken a method name at a poll, run the method and is back at the
\* CheckInterrupt of its main loop with its one frame.
C31_Witness ==
    /\ input.ast.some
    /\ input.rx
    /\ input.inbound # <<>>
    /\ remote_in # input.inbound
    /\ print_out # <<>>
    /\ result = Running
    /\ vm.return_addresses = <<>>
    /\ Len(vm.stack) = 1
    /\ ByteAt(vm.code, vm.ip) = CHECK_INTERRUPT_CODE

\* run() of products' worker has ended after the two prints of get_products.
C31_WitnessProducts ==
    /\ input.ast = Some(service_products)
    /\ input.rx /\ input.limit = 1 /\ input.inbound = <<s_get_products>>
    /\ result = MaxExecutionCounterReached

\* C32: running the instructions LogByteCodeGenerator produces for a task with count
\* Amount(n) and no vars sends exactly n Stdout(template) messages and then run()
\* returns Ok.
C32_Count == CHOOSE n \in 0..2 : input.instructions = process_task(s_log, s_x, n, 1)
RECURSIVE C32_Messages(_)
C32_Messages(n) == IF n = 0 THEN <<>> ELSE <<PrintStdout(s_x)>> \o C32_Messages(n - 1)
C32_CountedTaskPrintsNTimes ==
    (input.instructions \in log_tasks /\ input.max = None /\ result # Running) =>
        /\ result = Ok
        /\ print_out = C32_Messages(C32_Count)
\* What the code does: a task of count 0 prints nothing and ends with Ok.
C32_CountZero ==
    (input.instructions = process_task(s_log, s_x, 0, 1) /\ input.max = None
        /\ result # Running) => (result = Ok /\ print_out = <<>>)
C32_WitnessZero ==
    input.instructions = process_task(s_log, s_x, 0, 1) /\ input.max = None /\ result = Ok
C32_WitnessOne ==
    input.instructions = process_task(s_log, s_x, 1, 1) /\ input.max = None
        /\ result # Running

C33_Starts == { C30_Offset(i) : i \in 0..Len(input.instructions) }

\* C33: at every instruction boundary of run(), for any instruction list, ip is either
\* the length of the bytecode or the offset of the opcode byte of an encoded
\* instruction: the VM never decodes operand bytes as an opcode.
C33_IpAtInstruction == result = Running => vm.ip \in C33_Starts

\* What the code does: every instruction but JmpIfZero leaves ip at the opcode byte of
\* an instruction or at the end of the code.
C33_IpAtInstructionButJmpIfZero ==
    (result = Running /\ \A i \in 1..Len(input.instructions) :
                            input.instructions[i].op # "JmpIfZero") => vm.ip \in C33_Starts

\* The coordinator is suspended in a send to a full method channel.
C34_CoordinatorBlocked == coordinator.sending.some /\ ~ENABLED CoordinatorSend
\* The worker of service w is suspended in a send to a full channel.
C34_WorkerBlocked(w) ==
    workers[w].result = Running /\ ~ENABLED (WorkerStep(w) \/ WorkerReturn(w))

\* C34: the workers and the coordinator, connected by bounded channels, never reach a
\* state in which the coordinator and every worker are all blocked on a send to a full
\* channel: for any call graph, including services that call each other and targets
\* that declare a loop, some task can always take a step.
C34_NeverAllBlocked ==
    ~(C34_CoordinatorBlocked /\ \A w \in DOMAIN workers : C34_WorkerBlocked(w))

\* The state the system of two services that call each other ends in: the coordinator
\* and both workers are suspended in a send and no print task has a message to receive.
C34_Deadlocked ==
    /\ program = << service_calls_products, products_calls_frontend >>
    /\ C34_CoordinatorBlocked
    /\ \A w \in DOMAIN workers : C34_WorkerBlocked(w) /\ print_rx[w] = <<>>

\* The names the generated code of service s uses for labels that are not methods.
C35_Reserved(s) == { s_loop, s.name, s.name \o s__main }
\* The method names of s are pairwise distinct and none is reserved.
C35_MethodNames(s) ==
    /\ \A i, j \in 1..Len(s.methods) : s.methods[i].name = s.methods[j].name => i = j
    /\ \A i \in 1..Len(s.methods) : s.methods[i].name \notin C35_Reserved(s)

\* C35: for any service whose code generation succeeds and whose method names are
\* pairwise distinct and differ from "loop", the service name and "<service>_main",
\* every run of the generated code, whatever arrives on remote_in, keeps the frame
\* stack at a depth of at most 2 and return_addresses at a length of at most 1:
\* method invocations never nest.
C35_InvocationsNeverNest ==
    (input.ast.some /\ C35_MethodNames(input.ast.v)) =>
        (Len(vm.stack) <= 2 /\ Len(vm.return_addresses) <= 1)

\* What the code does: invocations never nest when, in addition, the loop of the
\* service does not call one of the reserved names.
C35_LoopCallsNoReserved(s) ==
    \A i \in 1..Len(s.loops) : \A j \in 1..Len(s.loops[i].statements) :
        s.loops[i].statements[j].kind = "Call" =>
            s.loops[i].statements[j].method \notin C35_Reserved(s)
C35_InvocationsNeverNestButReservedCall ==
    (input.ast.some /\ C35_MethodNames(input.ast.v) /\ C35_LoopCallsNoReserved(input.ast.v)) =>
        (Len(vm.stack) <= 2 /\ Len(vm.return_addresses) <= 1)

\* C36: in every run of code generated from a service, Ret is executed only when
\* return_addresses is non-empty, so the unchecked pop of Ret never fails.
C36_RetHasReturnAddress ==
    /\ [][ (input.ast.some /\ DoRet) => vm.return_addresses # <<>> ]_vars
    /\ [](input.ast.some => result # Panic)

\* C36's case: the method a loop calls has printed and its Ret has taken the worker
\* back to the Call, with no return address left.
C36_Witness ==
    /\ input.ast = Some(service_with_loop)
    /\ result = Running
    /\ print_out # <<>>
    /\ vm.return_addresses = <<>>
    /\ vm.ip < Len(vm.code) /\ ByteAt(vm.code, vm.ip) = CALL_CODE

\* C37: a CheckInterrupt that delivers no inbound call leaves ip, the frames,
\* return_addresses and vars unchanged (only remote_call_counter may change, and only
\* when remote_in is configured); a CheckInterrupt that delivers a call records its own
\* offset as the return address, so after the method's Ret the worker executes the same
\* CheckInterrupt again.
C37_CheckInterruptStaysInPlace ==
    /\ [][ (DoCheckInterrupt /\ remote_in' = remote_in) =>
             /\ vm' = [vm EXCEPT !.remote_call_counter = vm'.remote_call_counter]
             /\ ~vm.remote_call_rx => vm' = vm ]_vars
    /\ [][ (DoCheckInterrupt /\ remote_in' # remote_in) =>
             /\ vm'.return_addresses = Append(vm.return_addresses, vm.ip)
             /\ vm'.vars = vm.vars ]_vars
    /\ [][ (DoRet /\ vm.return_addresses # <<>>
                  /\ ByteAt(vm.code, vm.return_addresses[Len(vm.return_addresses)])
                        = CHECK_INTERRUPT_CODE) =>
             /\ vm'.ip = vm.return_addresses[Len(vm.return_addresses)]
             /\ ByteAt(vm'.code, vm'.ip) = CHECK_INTERRUPT_CODE ]_vars

\* C37's case: a CheckInterrupt has delivered a call, its own offset is the return
\* address of the method that is running.
C37_Witness ==
    /\ input.ast.some /\ input.rx
    /\ result = Running
    /\ remote_in # input.inbound
    /\ vm.return_addresses # <<>>
    /\ ByteAt(vm.code, vm.return_addresses[Len(vm.return_addresses)]) = CHECK_INTERRUPT_CODE
\* A CheckInterrupt that polled an empty remote_in has only reset the counter.
C37_WitnessNoCall ==
    /\ input.ast.some /\ input.rx /\ input.inbound = <<>> /\ input.limit = 1
    /\ execution_counter > 3
    /\ result = Running
    /\ vm.remote_call_counter = 0
    /\ vm.return_addresses = <<>>
    /\ vm.ip < Len(vm.code) /\ ByteAt(vm.code, vm.ip) = CHECK_INTERRUPT_CODE

\* The worker of service w has no label for the method name.
C38_Undeclared(w, name) == s_start_ \o name \notin DOMAIN workers[w].vm.label_jump_map

\* C38: when a worker polls remote_in and receives a method name m for which it has no
\* label start_m, run() ends with MissingLabel("start_m"): the worker executes no
\* further instruction and services no later inbound call.  The coordinator does not
\* check method names before it forwards them.
C38_UnknownMethodEndsWorker ==
    /\ [][ \A w \in DOMAIN workers :
             (WorkerStep(w) /\ remote_call_rx'[w] # remote_call_rx[w]
                 /\ C38_Undeclared(w, Head(remote_call_rx[w]))) =>
                workers'[w].result = MissingLabel(s_start_ \o Head(remote_call_rx[w])) ]_vars
    /\ [][ \A w \in DOMAIN workers :
             workers[w].result.kind = "MissingLabel" =>
                /\ workers'[w] = workers[w]
                /\ \/ print_rx'[w] = print_rx[w]
                   \/ print_rx[w] # <<>> /\ print_rx'[w] = Tail(print_rx[w])
                /\ remote_call_rx'[w] = remote_call_rx[w] ]_vars
    /\ [][ (C16_Receives /\ Head(main_rx).to \in coordinator.services
                /\ ~closed(Head(main_rx).to)
                /\ Len(remote_call_rx[Head(main_rx).to]) < remote_call_channel_size
                /\ C38_Undeclared(Head(main_rx).to, Head(main_rx).function)) =>
             C16_Forwards(Head(main_rx)) ]_vars

\* C38's case: the coordinator has forwarded get_prices to products, which declares only
\* get_products, and run() of products' worker has returned MissingLabel.
C38_Witness ==
    /\ program = << frontend_two_calls, products_printing >>
    /\ workers[s_products].result = MissingLabel(s_start_ \o s_get_prices)
    /\ workers[s_frontend].result = Running

\* C39: a worker with a tracer (and the channel to the coordinator) that runs the code
\* generated from a service ends run() with MissingContext at the first RemoteCall it
\* executes and sends no ServiceCall: generated code never executes StartContext.
C39_TracedCallIsMissingContext ==
    /\ [][ (input.ast.some /\ input.tracer /\ input.tx) =>
             /\ ~DoStartContext
             /\ DoRemoteCall => result' = MissingContext ]_vars
    /\ []((input.ast.some /\ input.tracer /\ input.tx) =>
             (~vm.otel_context /\ main_chan = <<>>))

\* C39's case: the worker of a service whose loop calls a method that makes a remote
\* call has a tracer, and its run() has ended at the RemoteCall.
C39_Witness ==
    /\ input.ast = Some(service_calls_products)
    /\ input.tracer /\ input.tx
    /\ result = MissingContext
    /\ ByteAt(vm.code, vm.ip) = REMOTE_CALL_CODE

\* The errors an instruction ends run() with.
C40_Errors ==
    { "StackUnderflow", "InvalidStackValue", "MissingVar", "MissingLabel",
      "InvalidTemplate", "RemoteCallError", "PrintError", "MissingSpan", "MissingContext",
      "MissingFunctionName", "InvalidInstruction", "MissingStackFrame" }

\* C40: whenever an instruction ends run() with an error other than
\* MaxExecutionCounterReached, ip still equals the offset of the failing instruction and
\* vars is unchanged by that instruction.
C40_ErrorLeavesIpAndVars ==
    [][ (result = Running /\ result'.kind \in C40_Errors) =>
          (vm'.ip = vm.ip /\ vm'.vars = vm.vars) ]_vars

\* C40's case: run() has ended with InvalidInstruction and ip is at the byte rejected.
C40_Witness ==
    /\ result.kind = "InvalidInstruction"
    /\ result = InvalidInstruction(ByteAt(vm.code, vm.ip))

Representable == result # Unrepresentable
=============================================================================
